---- MODULE Spec2Model ----
(***************************************************************************)
(* A model of the keploy regression core bundled with the b10alien demo:   *)
(* the test-run manager (package run), the capture / replay service        *)
(* (package regression) and the mongo run store (package mgo).             *)
(*                                                                         *)
(* Representation.  A dotted path ("header.etag", "body.ts") is the        *)
(* sequence of its dot-separated segments (<<"header", "etag">>), so that   *)
(* prefixing is concatenation and strings.Split(n, ".") yields the          *)
(* sequence itself; header names and JSON object keys are single segments.  *)
(* A JSON value is a record [k, v] tagged with its kind.  Time is counted   *)
(* in ticks of 150 seconds, so that 5*time.Minute is 2 ticks.               *)
(***************************************************************************)
EXTENDS Integers, Sequences, FiniteSets, TLC

VARIABLES
    now,          \* wall clock, in ticks (time.Now())
    rdbRuns,      \* run store, collection c: run id -> TestRun document
    rdbTests,     \* run store, collection test: the Test documents, in insertion order
    getPc,        \* RunManager.Get: "idle" | "loop" | "fail" | "attach"
    getTrs,       \* RunManager.Get: res, the batch returned by Read
    getI,         \* RunManager.Get: position in the batch
    getTests,     \* RunManager.Get: started times of the tests ReadTests returned
    getSummary,   \* RunManager.Get: the summary argument
    getRet,       \* RunManager.Get: outcome of the last finished call
    getLast,      \* history: what the last failOldTestRuns call was given and did
    testPc,       \* Regression.Test: "idle" | "inc"
    testT,        \* Regression.Test: t, the Test record being saved
    testRet,      \* Regression.Test: outcome of the last finished call
    testCalls,    \* history: run id -> number of Test invocations that ended
    counted,      \* history: the runs a Put has written with counters above zero
    puts,         \* history: number of RunManager.Put calls
    tdb,          \* test-case store: test-case id -> TestCase document
    fieldCounts,  \* Regression.fieldCounts: index -> path -> value -> count
    noisyFields,  \* Regression.noisyFields: index -> set of paths
    anchors,      \* Regression.anchors: index -> sequence of anchor combinations
    enableDeDup,  \* Regression.EnableDeDup
    putPc,        \* Regression.Put: "idle" | "loop"
    putCid,       \* Regression.Put: the cid argument
    putBatch,     \* Regression.Put: tcs, the cases not yet captured
    putIds,       \* Regression.Put: ids collected so far
    putRet,       \* Regression.Put: outcome of the last finished call
    history,      \* history: the captures putTC has processed, in order
    opRet,        \* history: the last DeNoise or Normalize call and its outcome
    hdr,          \* pkg.CompareHeaders: the arguments of a call and its results
    mu,           \* Regression.mu: the worker holding the mutex, or 0
    cpc,          \* concurrent captures: worker -> position in putTC / DeleteTC
    cloc          \* concurrent captures: worker -> locals of the call in progress

runVars == <<now, rdbRuns, rdbTests, getPc, getTrs, getI, getTests, getSummary, getRet,
             getLast,
             testPc, testT, testRet, testCalls, counted, puts>>
auxVars == <<opRet, hdr, mu, cpc, cloc>>
capVars == <<fieldCounts, noisyFields, anchors, enableDeDup, putPc, putCid, putBatch,
             putIds, putRet, history, auxVars>>
vars == <<runVars, capVars, tdb>>

----------------------------------------------------------------------------
(* Bounds of the model *)

MaxTime == 2
MaxTests == 2
MaxPuts == 2
MaxCaptures == 3

(* 5*time.Minute, in ticks *)
StallTicks == 2

----------------------------------------------------------------------------
(* Helpers on sequences and sets *)

Range(s) == {s[i] : i \in DOMAIN s}

RECURSIVE SetToSeq(_)
SetToSeq(S) ==
    IF S = {} THEN <<>>
    ELSE LET x == CHOOSE y \in S : TRUE IN <<x>> \o SetToSeq(S \ {x})

RemoveAt(s, j) == [i \in 1..(Len(s) - 1) |-> IF i < j THEN s[i] ELSE s[i + 1]]

----------------------------------------------------------------------------
(* JSON text.  json.Valid / json.Unmarshal are modelled by a table over the *)
(* body texts the model uses; every other text is not JSON.                 *)

JNum(n) == [k |-> "num", v |-> n]
JStr(s) == [k |-> "str", v |-> s]
JObj(f) == [k |-> "obj", v |-> f]
JArr(s) == [k |-> "arr", v |-> s]

BodyTs1 == "{\"ts\":1,\"user\":\"bob\"}"
BodyTs2 == "{\"ts\":2,\"user\":\"bob\"}"
BodyAB == "[\"a\",\"b\"]"
BodyBA == "[\"b\",\"a\"]"
BodyPlain == "hello"
BodyOther == "bye"
(* an array of twenty strings, eight of them distinct *)
BodyMany ==
    "[\"a\",\"b\",\"c\",\"d\",\"e\",\"f\",\"g\",\"h\",\"a\",\"a\",\"a\",\"a\",\"a\",\"a\",\"a\",\"a\",\"a\",\"a\",\"a\",\"a\"]"
ManyValues ==
    <<JStr("a"), JStr("b"), JStr("c"), JStr("d"), JStr("e"), JStr("f"), JStr("g"),
      JStr("h"), JStr("a"), JStr("a"), JStr("a"), JStr("a"), JStr("a"), JStr("a"),
      JStr("a"), JStr("a"), JStr("a"), JStr("a"), JStr("a"), JStr("a")>>

JsonTable ==
    (BodyTs1 :> JObj("ts" :> JNum(1) @@ "user" :> JStr("bob"))) @@
    (BodyTs2 :> JObj("ts" :> JNum(2) @@ "user" :> JStr("bob"))) @@
    (BodyAB :> JArr(<<JStr("a"), JStr("b")>>)) @@
    (BodyBA :> JArr(<<JStr("b"), JStr("a")>>)) @@
    (BodyMany :> JArr(ManyValues))

JsonValid(body) == body \in DOMAIN JsonTable
JsonUnmarshal(body) == JsonTable[body]

----------------------------------------------------------------------------
(* pkg.Match: two JSON documents compared under a noise mask.  A path that  *)
(* is in noise is skipped with everything below it; objects need the same   *)
(* key set; arrays need the same length and are compared without regard to  *)
(* order, each expected element consuming one matching actual element.      *)

RECURSIVE MatchVal(_, _, _, _)
RECURSIVE MatchArr(_, _, _, _)

MatchVal(e, a, path, noise) ==
    IF path \in noise THEN TRUE
    ELSE IF e.k # a.k THEN FALSE
    ELSE IF e.k = "obj" THEN
        /\ DOMAIN e.v = DOMAIN a.v
        /\ \A key \in DOMAIN e.v : MatchVal(e.v[key], a.v[key], path \o <<key>>, noise)
    ELSE IF e.k = "arr" THEN
        /\ Len(e.v) = Len(a.v)
        /\ MatchArr(e.v, a.v, path, noise)
    ELSE e.v = a.v

MatchArr(es, as, path, noise) ==
    IF es = <<>> THEN TRUE
    ELSE LET hits == {j \in DOMAIN as : MatchVal(es[1], as[j], path, noise)}
         IN IF hits = {} THEN FALSE
            ELSE LET j == CHOOSE x \in hits : \A y \in hits : x <= y
                 IN MatchArr(Tail(es), RemoveAt(as, j), path, noise)

(* Match(expected, actual, noise, log): a body that does not parse is an error *)
Match(expected, actual, noise) ==
    IF ~JsonValid(expected) \/ ~JsonValid(actual)
    THEN [pass |-> FALSE, err |-> TRUE]
    ELSE [pass |-> MatchVal(JsonUnmarshal(expected), JsonUnmarshal(actual), <<>>, noise),
          err |-> FALSE]

(* a key in noise is Normal wherever it occurs *)
HeaderNormalAnyNoise(expected, actual, noise, key) ==
    \/ key \in noise
    \/ key \in DOMAIN expected /\ key \in DOMAIN actual /\ expected[key] = actual[key]

(* pkg.CompareHeaders: one HeaderResult per key of either map; HeaderNormal *)
(* is its Normal field.                                                     *)
HeaderNormal(expected, actual, noise, key) ==
    IF key \in DOMAIN expected /\ key \in DOMAIN actual
    THEN expected[key] = actual[key] \/ key \in noise
    ELSE IF key \in DOMAIN actual THEN key \in noise
    ELSE FALSE

CompareHeaders(expected, actual, noise) ==
    \A key \in DOMAIN expected \cup DOMAIN actual :
        HeaderNormal(expected, actual, noise, key)

(* pkg.Contains(tc.Noise, "body") *)
Contains(noise, path) == path \in noise

----------------------------------------------------------------------------
(* Regression.test, from the loaded test case on: the noise partition, the  *)
(* body, header and status comparisons.  Returns the verdict and the error. *)

BodyNoiseOf(noise) == {Tail(n) : n \in {m \in noise : Len(m) > 1 /\ m[1] = "body"}}

HeaderNoiseOf(noise) ==
    {n[Len(n)] : n \in {m \in noise : ~(Len(m) > 1 /\ m[1] = "body") /\ m[1] = "header"}}

testIgnoringStatus(tc, resp) ==
    LET bodyJSON == JsonValid(resp.body)
        noBody == ~Contains(tc.noise, <<"body">>)
        m == Match(tc.resp.body, resp.body, BodyNoiseOf(tc.noise))
    IN IF noBody /\ bodyJSON /\ m.err THEN [pass |-> FALSE, err |-> TRUE]
       ELSE [pass |-> /\ (IF noBody /\ bodyJSON THEN m.pass
                          ELSE ~(noBody /\ tc.resp.body # resp.body))
                      /\ CompareHeaders(tc.resp.header, resp.header,
                                        HeaderNoiseOf(tc.noise)),
             err |-> FALSE]

test(tc, resp) ==
    LET bodyJSON == JsonValid(resp.body)
        noBody == ~Contains(tc.noise, <<"body">>)
        m == Match(tc.resp.body, resp.body, BodyNoiseOf(tc.noise))
    IN IF noBody /\ bodyJSON /\ m.err THEN [pass |-> FALSE, err |-> TRUE]
       ELSE LET pass1 == IF noBody /\ bodyJSON THEN m.pass
                         ELSE IF noBody /\ tc.resp.body # resp.body THEN FALSE
                         ELSE TRUE
                pass2 == IF ~CompareHeaders(tc.resp.header, resp.header,
                                            HeaderNoiseOf(tc.noise))
                         THEN FALSE ELSE pass1
                pass3 == IF tc.resp.status = resp.status THEN pass2 ELSE FALSE
            IN [pass |-> pass3, err |-> FALSE]

----------------------------------------------------------------------------
(* The run store (mgo.RunDB) *)

RunIds == {"r1"}
Running == "running"
Passed == "passed"
Failed == "failed"

EmptyMap == [x \in {} |-> x]

(* The document a TestRun value is written as, and the value read back *)
RunDoc(tr) == [status |-> tr.status, success |-> tr.success, failure |-> tr.failure,
               created |-> tr.created]
RunOf(id, doc) == [id |-> id, status |-> doc.status, success |-> doc.success,
                   failure |-> doc.failure, created |-> doc.created]
ZeroDoc == [status |-> "", success |-> 0, failure |-> 0, created |-> 0]

(* RunDB.Upsert: UpdateOne(_id, $set testRun, upsert) *)
Upsert(runs, tr) == (tr.id :> RunDoc(tr)) @@ runs

(* RunDB.Increment: UpdateOne(_id, $inc, upsert); failure wins over success *)
Increment(runs, success, failure, id) ==
    LET doc == IF id \in DOMAIN runs THEN runs[id] ELSE ZeroDoc
    IN IF failure THEN (id :> [doc EXCEPT !.failure = @ + 1]) @@ runs
       ELSE IF success THEN (id :> [doc EXCEPT !.success = @ + 1]) @@ runs
       ELSE runs

(* RunDB.PutTest: the Test id is a fresh uuid, so the upsert inserts *)
PutTest(tests, t) == Append(tests, t)

(* RunDB.ReadTests: the started times of the tests of a run *)
ReadTests(tests, runID) ==
    LET idx == {i \in DOMAIN tests : tests[i].run = runID}
        RECURSIVE pick(_)
        pick(i) == IF i > Len(tests) THEN <<>>
                   ELSE IF i \in idx THEN <<tests[i].started>> \o pick(i + 1)
                   ELSE pick(i + 1)
    IN pick(1)

(* RunDB.Read: the runs matching the filter, sorted by created descending; *)
(* ids is the set of ids the filter lets through.                           *)
Read(runs, ids) ==
    LET hit == DOMAIN runs \cap ids
    IN {s \in [1..Cardinality(hit) -> hit] :
          /\ \A i, j \in DOMAIN s : i # j => s[i] # s[j]
          /\ \A i, j \in DOMAIN s : i < j => runs[s[i]].created >= runs[s[j]].created}

----------------------------------------------------------------------------
(* RunManager (package run) *)

NoLast == [kind |-> "none", act |-> "none"]
NoPutRet == [kind |-> "none", ids |-> <<>>, batch |-> <<>>, dups |-> <<>>, calls |-> 0]
NoOpRet == [op |-> "none", id |-> "", test |-> 0, header |-> EmptyMap, body |-> "",
            failed |-> "none", err |-> "nil"]
NoHdr == [expected |-> EmptyMap, actual |-> EmptyMap, noise |-> {}, done |-> FALSE,
          res |-> EmptyMap, ret |-> FALSE]
Workers == {1, 2}
NoLocals == [t |-> EmptyMap, id |-> "", c |-> EmptyMap, dup |-> FALSE, an |-> <<>>,
             calls |-> 0, counted |-> 0, appended |-> 0, deleted |-> 0,
             locked |-> 0, installed |-> 0]


(* Run.Put: a blind upsert of the caller's TestRun *)
RunPut(tr, ok) ==
    /\ puts < MaxPuts
    /\ puts' = puts + 1
    /\ rdbRuns' = IF ok THEN Upsert(rdbRuns, tr) ELSE rdbRuns
    /\ counted' = IF ok /\ tr.success + tr.failure > 0 THEN counted \cup {tr.id}
                  ELSE counted
    /\ UNCHANGED <<capVars, tdb>>
    /\ UNCHANGED <<now, rdbTests, getPc, getTrs, getI, getTests, getSummary, getRet,
                   getLast, testPc, testT, testRet, testCalls>>

(* Run.Get, up to the call of updateStatus *)
GetRead(ids, ok) ==
    /\ getPc = "idle"
    /\ IF ~ok
       THEN /\ getRet' = "err"
            /\ UNCHANGED <<getPc, getTrs, getI>>
       ELSE /\ \E s \in Read(rdbRuns, ids) :
                 getTrs' = [i \in DOMAIN s |-> RunOf(s[i], rdbRuns[s[i]])]
            /\ getPc' = "loop"
            /\ getI' = 1
            /\ getRet' = "none"
    /\ UNCHANGED <<capVars, tdb>>
    /\ UNCHANGED <<now, rdbRuns, rdbTests, getTests, getSummary, getLast, testPc, testT, testRet,
                   testCalls, counted, puts>>

(* Run.updateStatus: one iteration up to the call of failOldTestRuns, or   *)
(* the end of the loop.  The summary argument of Get is first read after    *)
(* updateStatus has returned and is drawn there.                            *)
GetLoop(ok, summary) ==
    /\ getPc = "loop"
    /\ IF getI > Len(getTrs)
       THEN /\ IF summary \/ Len(getTrs) = 0
               THEN getPc' = "idle" /\ getRet' = "ok"
               ELSE getPc' = "attach" /\ getRet' = getRet
            /\ getTrs' = <<>>
            /\ getI' = 1
            /\ UNCHANGED getTests
       ELSE IF getTrs[getI].status # Running
       THEN /\ getI' = getI + 1
            /\ UNCHANGED <<getPc, getRet, getTests, getTrs>>
       ELSE IF ~ok
       THEN /\ getPc' = "idle"
            /\ getRet' = "err"
            /\ getTrs' = <<>>
            /\ getI' = 1
            /\ UNCHANGED getTests
       ELSE /\ getTests' = ReadTests(rdbTests, getTrs[getI].id)
            /\ getPc' = "fail"
            /\ UNCHANGED <<getI, getRet, getTrs>>
    /\ UNCHANGED <<capVars, tdb>>
    /\ UNCHANGED <<now, rdbRuns, rdbTests, getSummary, getLast, testPc, testT,
                   testRet, testCalls, counted, puts>>

(* the newest test, as the loop of updateStatus finds it *)
RECURSIVE NewestFrom(_, _)
NewestFrom(ts, tests) ==
    IF tests = <<>> THEN ts
    ELSE NewestFrom(IF Head(tests) > ts THEN Head(tests) ELSE ts, Tail(tests))

OldestFrom(ts, tests) ==
    CHOOSE t \in Range(tests) \cup {ts} : \A u \in Range(tests) \cup {ts} : t <= u

(* the time updateStatus hands to failOldTestRuns *)
StallBaseIgnoreEmpty(tr, tests) == IF tests = <<>> THEN now - StallTicks
                                   ELSE NewestFrom(tests[1], tests)

StallBaseOldest(tr, tests) == IF tests = <<>> THEN tr.created
                              ELSE OldestFrom(tests[1], tests)

StallBase(tr, tests) == IF tests = <<>> THEN tr.created
                        ELSE NewestFrom(tests[1], tests)

(* Run.failOldTestRuns, and the rest of the iteration; tests goes out of   *)
(* scope with it                                                            *)
GetFail(ok) ==
    /\ getPc = "fail"
    /\ LET tr == getTrs[getI]
           ts == StallBase(tr, getTests)
           diff == now - ts
           failedTr == [tr EXCEPT !.status = Failed]
           kind == IF getTests = <<>> THEN "empty" ELSE "tests"
       IN IF diff < StallTicks
          THEN /\ getI' = getI + 1
               /\ getPc' = "loop"
               /\ getLast' = [kind |-> kind, act |-> "kept"]
               /\ UNCHANGED <<rdbRuns, getTrs, getRet>>
          ELSE IF ok
          THEN /\ rdbRuns' = Upsert(rdbRuns, failedTr)
               /\ getTrs' = [getTrs EXCEPT ![getI] = failedTr]
               /\ getLast' = [kind |-> kind, act |-> "failed"]
               /\ getI' = getI + 1
               /\ getPc' = "loop"
               /\ getRet' = getRet
          ELSE /\ getLast' = [kind |-> kind, act |-> "error"]
               /\ getPc' = "idle"
               /\ getRet' = "err"
               /\ getTrs' = <<>>
               /\ getI' = 1
               /\ UNCHANGED rdbRuns
    /\ getTests' = <<>>
    /\ UNCHANGED <<capVars, tdb>>
    /\ UNCHANGED <<now, rdbTests, getSummary, testPc, testT, testRet, testCalls, counted, puts>>

(* Run.Get after updateStatus: the tests of every run are attached *)
GetAttach(ok) ==
    /\ getPc = "attach"
    /\ getPc' = "idle"
    /\ getRet' = IF ok THEN "ok" ELSE "err"
    /\ UNCHANGED <<capVars, tdb>>
    /\ UNCHANGED <<now, rdbRuns, rdbTests, getTrs, getI, getTests, getSummary, getLast,
                   testPc, testT, testRet, testCalls, counted, puts>>

(* the clock *)
Tick ==
    /\ now < MaxTime
    /\ now' = now + 1
    /\ UNCHANGED <<capVars, tdb>>
    /\ UNCHANGED <<rdbRuns, rdbTests, getPc, getTrs, getI, getTests, getSummary, getRet,
                   getLast, testPc, testT, testRet, testCalls, counted, puts>>

----------------------------------------------------------------------------
(* Stored test cases and observed responses of the replay side *)

Resp(status, header, body) == [status |-> status, header |-> header, body |-> body]
Req(header, params, body) == [header |-> header, params |-> params, body |-> body]

Case(id, app, uri, req, resp, noise) ==
    [id |-> id, cid |-> "", app |-> app, uri |-> uri, req |-> req, resp |-> resp,
     allKeys |-> EmptyMap, anchors |-> EmptyMap, noise |-> noise]

Etag(v) == "etag" :> <<v>>

ReplayCases ==
    LET get == Req(EmptyMap, EmptyMap, "")
    IN ("tcA" :> Case("tcA", "app", "/b10aliens", get, Resp(200, Etag("e1"), BodyTs1), {})) @@
       ("tcB" :> Case("tcB", "app", "/b10aliens", get, Resp(200, Etag("e1"), BodyTs1),
                      {<<"body", "ts">>, <<"header", "etag">>})) @@
       ("tcC" :> Case("tcC", "app", "/", get, Resp(200, EmptyMap, BodyPlain), {})) @@
       ("tcD" :> Case("tcD", "app", "/", get, Resp(200, EmptyMap, BodyPlain),
                      {<<"body">>})) @@
       ("tcE" :> Case("tcE", "app", "/tags", get, Resp(200, EmptyMap, BodyAB), {}))

Observed ==
    {Resp(200, Etag("e1"), BodyTs1), Resp(200, Etag("e2"), BodyTs2),
     Resp(500, Etag("e1"), BodyTs1), Resp(200, EmptyMap, BodyPlain),
     Resp(200, EmptyMap, BodyOther), Resp(200, EmptyMap, BodyBA),
     Resp(200, EmptyMap, BodyTs1)}

(* the replays of the run-lifecycle specification: a pass and a failure    *)
ReplayInputs ==
    {<<"tcA", Resp(200, Etag("e1"), BodyTs1)>>, <<"tcA", Resp(500, Etag("e1"), BodyTs1)>>}

CompareInputs == (DOMAIN ReplayCases \cup {"gone"}) \X Observed

----------------------------------------------------------------------------
(* Regression.Test and Regression.saveResult *)

NoRet == [kind |-> "none", run |-> "", tc |-> "", resp |-> Resp(0, EmptyMap, ""),
          loaded |-> FALSE, ok |-> FALSE, err |-> FALSE, status |-> "",
          saved |-> FALSE, counted |-> FALSE, delta |-> <<0, 0>>]
NoTest == [run |-> "", started |-> 0, status |-> "", tc |-> "", resp |-> Resp(0, EmptyMap, "")]

TestsEnded == LET RECURSIVE sum(_)
                  sum(S) == IF S = {} THEN 0
                            ELSE LET r == CHOOSE x \in S : TRUE
                                 IN testCalls[r] + sum(S \ {r})
              IN sum(RunIds)

(* saveResult after PutTest: the counter the status selects *)
SaveCounterBoth(runs, t) ==
    Increment(Increment(runs, TRUE, FALSE, t.run), FALSE, TRUE, t.run)

SaveCounter(runs, t) ==
    IF t.status = Failed THEN Increment(runs, FALSE, TRUE, t.run)
    ELSE Increment(runs, TRUE, FALSE, t.run)

(* Test up to PutTest.  A test case that cannot be loaded leaves t nil, and *)
(* t.Completed = ... dereferences it: the call panics before saveResult is  *)
(* deferred.  Otherwise the return values are (ok, nil) whatever follows.   *)
Loaded(id, loadOk) == loadOk /\ id \in DOMAIN tdb

TestRecord(runID, id, resp) ==
    [run |-> runID, started |-> now,
     status |-> IF test(tdb[id], resp).pass THEN Passed ELSE Failed,
     tc |-> id, resp |-> resp]

TestCall(runID, id, resp, loadOk, putOk) ==
    /\ testPc = "idle"
    /\ Len(rdbTests) < MaxTests
    /\ IF Loaded(id, loadOk) /\ putOk
       THEN /\ rdbTests' = PutTest(rdbTests, TestRecord(runID, id, resp))
            /\ testT' = TestRecord(runID, id, resp)
            /\ testPc' = "inc"
       ELSE UNCHANGED <<rdbTests, testPc, testT>>
    /\ UNCHANGED <<capVars, tdb>>
    /\ UNCHANGED <<now, rdbRuns, getPc, getTrs, getI, getTests, getSummary, getRet,
                   getLast, counted, puts>>

(* saveResult from Increment on, and the return of Test *)
TestInc(ok) ==
    /\ testPc = "inc"
    /\ rdbRuns' = IF ok THEN SaveCounter(rdbRuns, testT) ELSE rdbRuns
    /\ testPc' = "idle"
    /\ testT' = NoTest
    /\ UNCHANGED <<capVars, tdb>>
    /\ UNCHANGED <<now, rdbTests, getPc, getTrs, getI, getTests, getSummary, getRet,
                   getLast, counted, puts>>

(* History of Test: what the caller of the last call saw (kind "ret": the  *)
(* values returned; "panic": the nil dereference), and the calls that ended *)
TestCallSeen(runID, id, resp, loadOk, putOk) ==
    /\ TestsEnded < MaxTests
    /\ TestCall(runID, id, resp, loadOk, putOk)
    /\ IF ~Loaded(id, loadOk)
       THEN /\ testRet' = [NoRet EXCEPT !.kind = "panic", !.run = runID, !.tc = id,
                                        !.resp = resp]
            /\ testCalls' = [testCalls EXCEPT ![runID] = @ + 1]
       ELSE LET r == test(tdb[id], resp)
                ret == [NoRet EXCEPT !.run = runID, !.tc = id, !.resp = resp,
                                     !.loaded = TRUE, !.ok = r.pass, !.err = FALSE,
                                     !.status = TestRecord(runID, id, resp).status]
            IN IF putOk
               THEN /\ testRet' = [ret EXCEPT !.kind = "saving", !.saved = TRUE]
                    /\ UNCHANGED testCalls
               ELSE /\ testRet' = [ret EXCEPT !.kind = "ret"]
                    /\ testCalls' = [testCalls EXCEPT ![runID] = @ + 1]

Counters(runs, r) ==
    IF r \in DOMAIN runs THEN <<runs[r].success, runs[r].failure>> ELSE <<0, 0>>

TestIncSeen(ok) ==
    /\ TestInc(ok)
    /\ testRet' = [testRet EXCEPT
                     !.kind = "ret", !.counted = ok,
                     !.delta = <<Counters(rdbRuns', testT.run)[1]
                                   - Counters(rdbRuns, testT.run)[1],
                                 Counters(rdbRuns', testT.run)[2]
                                   - Counters(rdbRuns, testT.run)[2]>>]
    /\ testCalls' = [testCalls EXCEPT ![testT.run] = @ + 1]

----------------------------------------------------------------------------
(* The run lifecycle: Test, RunManager.Get and RunManager.Put running       *)
(* against one run store, with the clock                                    *)

PutCounters == {<<0, 0>>, <<1, 0>>}

InitRun ==
    /\ now = 0
    /\ rdbRuns = EmptyMap
    /\ rdbTests = <<>>
    /\ getPc = "idle"
    /\ getTrs = <<>>
    /\ getI = 1
    /\ getTests = <<>>
    /\ getSummary = FALSE
    /\ getRet = "none"
    /\ getLast = NoLast
    /\ testPc = "idle"
    /\ testT = NoTest
    /\ testRet = NoRet
    /\ testCalls = [r \in RunIds |-> 0]
    /\ counted = {}
    /\ puts = 0

InitCapIdle ==
    /\ fieldCounts = EmptyMap
    /\ noisyFields = EmptyMap
    /\ anchors = EmptyMap
    /\ putPc = "idle"
    /\ putCid = ""
    /\ putBatch = <<>>
    /\ putIds = <<>>
    /\ putRet = NoPutRet
    /\ history = <<>>
    /\ opRet = NoOpRet
    /\ mu = 0
    /\ cpc = [w \in Workers |-> "idle"]
    /\ cloc = [w \in Workers |-> NoLocals]

InitReplay == InitRun /\ InitCapIdle /\ hdr = NoHdr /\ enableDeDup = TRUE /\ tdb = ReplayCases

NextRun ==
    \/ \E id \in RunIds, status \in {Running, Passed, Failed}, c \in {0, now},
          n \in PutCounters, ok \in BOOLEAN :
            RunPut([id |-> id, status |-> status, success |-> n[1], failure |-> n[2],
                    created |-> c], ok)
    \/ \E ids \in {RunIds} \cup {{r} : r \in RunIds}, ok \in BOOLEAN : GetRead(ids, ok)
    \/ \E ok, summary \in BOOLEAN : GetLoop(ok, summary)
    \/ \E ok \in BOOLEAN : GetFail(ok)
    \/ \E ok \in BOOLEAN : GetAttach(ok)
    \/ \E r \in RunIds, in \in ReplayInputs, loadOk, putOk \in BOOLEAN :
          TestCall(r, in[1], in[2], loadOk, putOk) /\ UNCHANGED <<testRet, testCalls>>
    \/ \E ok \in BOOLEAN : TestInc(ok) /\ UNCHANGED <<testRet, testCalls>>
    \/ Tick

SpecRun == InitReplay /\ [][NextRun]_vars

(* Replay alone: Test over every stored case and observed response, with   *)
(* its history                                                              *)
NextReplay ==
    \/ \E r \in RunIds, in \in CompareInputs, loadOk, putOk \in BOOLEAN :
          TestCallSeen(r, in[1], in[2], loadOk, putOk)
    \/ \E ok \in BOOLEAN : TestIncSeen(ok)

SpecReplay == InitReplay /\ [][NextReplay]_vars

----------------------------------------------------------------------------
(* Capture: the flattened request, the anchor test and the test-case store *)

(* fmt.Sprintf("%s-%s-%s", t.CID, t.AppID, t.URI) *)
Index(cid, app, uri) == cid \o "-" \o app \o "-" \o uri

(* isAnchor: below MinSamples counted values every field is an anchor;     *)
(* 0.40 is the fraction AnchorNum / AnchorDen                               *)
MinSamples == 20
AnchorNum == 2
AnchorDen == 5

TotalCount(m) ==
    LET RECURSIVE sum(_)
        sum(S) == IF S = {} THEN 0
                  ELSE LET x == CHOOSE y \in S : TRUE IN m[x] + sum(S \ {x})
    IN sum(DOMAIN m)

isAnchorNoWarmup(m) ==
    TotalCount(m) * AnchorNum > Cardinality(DOMAIN m) * AnchorDen

(* the field is low variant also when the unique values are 40% exactly *)
isAnchorInclusive(m) ==
    TotalCount(m) < MinSamples \/ TotalCount(m) * AnchorNum >= Cardinality(DOMAIN m) * AnchorDen

isAnchor(m) ==
    LET totalCount == TotalCount(m)
    IN IF totalCount < MinSamples THEN TRUE
       ELSE IF totalCount * AnchorNum > Cardinality(DOMAIN m) * AnchorDen THEN TRUE
       ELSE FALSE

(* strconv.FormatFloat(x, 'E', -1, 64), for the one-digit numbers of the   *)
(* model's bodies                                                           *)
FormatFloat(n) == ToString(n) \o "E+00"

(* o[nk] = nv, the element's values in place of the earlier ones *)
MergeFlatOverwrite(o, nm) == nm @@ o

(* o[nk] = append(ov, nv...) over two flattened maps *)
MergeFlat(o, nm) ==
    [p \in DOMAIN o \cup DOMAIN nm |->
        IF p \in DOMAIN o /\ p \in DOMAIN nm THEN o[p] \o nm[p]
        ELSE IF p \in DOMAIN o THEN o[p] ELSE nm[p]]

RECURSIVE flatten(_)
RECURSIVE flattenAll(_, _)

flatten(j) ==
    IF j.k = "null" THEN (<<>> :> <<"">>)
    ELSE IF j.k = "obj" THEN
        [p \in UNION {{<<key>> \o nk : nk \in DOMAIN flatten(j.v[key])} : key \in DOMAIN j.v}
            |-> flatten(j.v[p[1]])[Tail(p)]]
    ELSE IF j.k = "bool" THEN (<<>> :> <<IF j.v THEN "true" ELSE "false">>)
    ELSE IF j.k = "num" THEN (<<>> :> <<FormatFloat(j.v)>>)
    ELSE IF j.k = "str" THEN (<<>> :> <<j.v>>)
    ELSE flattenAll(j.v, EmptyMap)

flattenAll(child, o) ==
    IF child = <<>> THEN o
    ELSE flattenAll(Tail(child), MergeFlat(o, flatten(Head(child))))

(* strings.Join(v, "") *)
RECURSIVE Join(_)
Join(v) == IF v = <<>> THEN "" ELSE Head(v) \o Join(Tail(v))

(* sort.Strings, over the texts the model's requests hold, in byte order *)
TextOrder == <<"", "1E+00", "2E+00", "a", "b", "bob", "c", "d", "e", "f", "g", "h",
               "json", "t1", "t2", "t3">>
Rank(s) == CHOOSE i \in DOMAIN TextOrder : TextOrder[i] = s

RECURSIVE SortStrings(_)
SortStrings(v) ==
    IF v = <<>> THEN <<>>
    ELSE LET i == CHOOSE x \in DOMAIN v : \A y \in DOMAIN v : Rank(v[x]) <= Rank(v[y])
         IN <<v[i]>> \o SortStrings(RemoveAt(v, i))

(* isDup: reqKeys, from the headers, the url params and a JSON body *)
ReqKeys(t) ==
    LET h == t.req.header
        q == t.req.params
        hk == [p \in {<<"header", x>> : x \in DOMAIN h} |-> <<Join(h[p[2]])>>]
        qk == [p \in {<<"url_params", x>> : x \in DOMAIN q} |-> <<q[p[2]]>>]
        bk == IF JsonValid(t.req.body)
              THEN LET body == flatten(JsonUnmarshal(t.req.body))
                   IN [p \in {<<"body">> \o x : x \in DOMAIN body} |-> body[Tail(p)]]
              ELSE EmptyMap
    IN hk @@ qk @@ bk

(* fieldCounts[index][k][s] = fieldCounts[index][k][s] + 1, for each s of v *)
RECURSIVE CountAll(_, _)
CountAll(m, v) ==
    IF v = <<>> THEN m
    ELSE CountAll((Head(v) :> (IF Head(v) \in DOMAIN m THEN m[Head(v)] + 1 ELSE 1)) @@ m,
                  Tail(v))

CountsOf(fc, k) == IF k \in DOMAIN fc THEN fc[k] ELSE EmptyMap
AnchorsOf(an, index) == IF index \in DOMAIN an THEN an[index] ELSE <<>>

(* The test-case store.  GetKeys returns the cases of an index; Upsert     *)
(* replaces by id; DeleteByAnchor removes the cases of the index whose      *)
(* anchors equal the given combination.                                     *)
InIndex(tc, cid, app, uri) == tc.cid = cid /\ tc.app = app /\ tc.uri = uri

GetKeys(store, cid, app, uri) ==
    LET ids == SetToSeq({id \in DOMAIN store : InIndex(store[id], cid, app, uri)})
    IN [i \in DOMAIN ids |-> store[ids[i]]]

TcUpsert(store, t) == (t.id :> t) @@ store

DeleteByAnchor(store, cid, app, uri, filterKeys) ==
    LET gone == {id \in DOMAIN store :
                    InIndex(store[id], cid, app, uri) /\ store[id].anchors = filterKeys}
    IN [id \in DOMAIN store \ gone |-> store[id]]

----------------------------------------------------------------------------
(* Regression.fillCache, isDup, exists, putTC and Put.  The operators take *)
(* the outcome of each store call (keysOk, deleteOk, upsertOk) and return   *)
(* the cache and the store as the call leaves them; calls counts the store  *)
(* calls made.                                                              *)

(* fillCache: one stored case added to the maps being built *)
FillCase(acc, v) ==
    LET fc == [k \in DOMAIN acc.fc \cup DOMAIN v.allKeys |->
                  IF k \in DOMAIN v.allKeys
                  THEN CountAll(CountsOf(acc.fc, k), v.allKeys[k])
                  ELSE acc.fc[k]]
    IN [fc |-> fc,
        nf |-> acc.nf \cup {k \in DOMAIN v.allKeys : ~isAnchor(fc[k])},
        an |-> Append(acc.an, v.anchors)]

RECURSIVE FillFrom(_, _)
FillFrom(tcs, acc) ==
    IF tcs = <<>> THEN acc ELSE FillFrom(Tail(tcs), FillCase(acc, Head(tcs)))

(* fillCache without the checks: the maps are loaded and installed anew *)
fillCacheUnchecked(t, keysOk) ==
    LET index == Index(t.cid, t.app, t.uri)
        acc == FillFrom(GetKeys(tdb, t.cid, t.app, t.uri),
                        [fc |-> EmptyMap, nf |-> {}, an |-> <<>>])
    IN [err |-> FALSE, calls |-> 1,
        fieldCounts |-> (index :> acc.fc) @@ fieldCounts,
        noisyFields |-> (index :> acc.nf) @@ noisyFields,
        anchors |-> (index :> acc.an) @@ anchors]

fillCache(t, keysOk) ==
    LET index == Index(t.cid, t.app, t.uri)
        same == [err |-> FALSE, calls |-> 0, fieldCounts |-> fieldCounts,
                 noisyFields |-> noisyFields, anchors |-> anchors]
    IN IF index \in DOMAIN noisyFields /\ index \in DOMAIN fieldCounts THEN same
       ELSE IF ~keysOk THEN [same EXCEPT !.err = TRUE, !.calls = 1]
       ELSE LET acc == FillFrom(GetKeys(tdb, t.cid, t.app, t.uri),
                                [fc |-> EmptyMap, nf |-> {}, an |-> <<>>])
            IN [err |-> FALSE, calls |-> 1,
                fieldCounts |-> (index :> acc.fc) @@ fieldCounts,
                noisyFields |-> (index :> acc.nf) @@ noisyFields,
                anchors |-> (index :> acc.an) @@ anchors]

(* exists: the value lists are sorted in place, then compared with every   *)
(* combination cached for the index                                         *)
SortedKeys(filterKeys) == [k \in DOMAIN filterKeys |-> SortStrings(filterKeys[k])]

exists(filterKeys, index, an) ==
    \E i \in DOMAIN AnchorsOf(an, index) : AnchorsOf(an, index)[i] = SortedKeys(filterKeys)

(* what isDup and putTC leave behind: the verdict, the error, the case as  *)
(* isDup filled it in, the store calls made, the store and the cache        *)
Outcome(dup, err, t, calls, store, fc, nf, an) ==
    [dup |-> dup, err |-> err, t |-> t, calls |-> calls, tdb |-> store,
     fieldCounts |-> fc, noisyFields |-> nf, anchors |-> an]

(* the loop counting the noisy fields as well *)
CountKeysNoisyToo(fc, nf, reqKeys) ==
    LET fc2 == [k \in DOMAIN fc \cup {x \in DOMAIN reqKeys : reqKeys[x] # <<>>} |->
                   IF k \in DOMAIN reqKeys THEN CountAll(CountsOf(fc, k), reqKeys[k])
                   ELSE fc[k]]
        noisy == {k \in DOMAIN reqKeys : ~isAnchor(CountsOf(fc2, k))}
    IN [fc |-> fc2, nf |-> nf \cup noisy,
        filterKeys |-> [k \in DOMAIN reqKeys \ noisy |-> reqKeys[k]]]

(* isDup, the loop over reqKeys: the counts of the fields not yet noisy    *)
(* grow, a field that stops being an anchor turns noisy, the others make    *)
(* up filterKeys                                                            *)
CountKeys(fc, nf, reqKeys) ==
    LET live == DOMAIN reqKeys \ nf
        fc2 == [k \in DOMAIN fc \cup {x \in live : reqKeys[x] # <<>>} |->
                   IF k \in live THEN CountAll(CountsOf(fc, k), reqKeys[k]) ELSE fc[k]]
        noisy == {k \in live : ~isAnchor(CountsOf(fc2, k))}
    IN [fc |-> fc2, nf |-> nf \cup noisy, filterKeys |-> [k \in live \ noisy |-> reqKeys[k]]]

(* t.AllKeys = reqKeys: the lists reqKeys shares with filterKeys are the   *)
(* ones exists has sorted in place                                          *)
AllKeysUnsorted(reqKeys, filterKeys) == reqKeys

AllKeysOf(reqKeys, filterKeys) ==
    [k \in DOMAIN reqKeys |->
        IF k \in DOMAIN filterKeys THEN SortStrings(reqKeys[k]) ELSE reqKeys[k]]

(* isDup after the loop.  isAnchorChange is true on every path, so         *)
(* DeleteByAnchor is called whenever filterKeys is not empty, with the      *)
(* lists as reqKeys holds them; exists then sorts the lists filterKeys      *)
(* shares with reqKeys, and filterKeys is appended whatever exists said.    *)
isDupCounted(t, index, f, reqKeys, c, deleteOk) ==
    IF DOMAIN c.filterKeys = {}
    THEN Outcome(TRUE, FALSE, t, f.calls, tdb, (index :> c.fc) @@ f.fieldCounts,
                 (index :> c.nf) @@ f.noisyFields, f.anchors)
    ELSE IF ~deleteOk
    THEN Outcome(FALSE, TRUE, t, f.calls + 1, tdb, (index :> c.fc) @@ f.fieldCounts,
                 (index :> c.nf) @@ f.noisyFields, f.anchors)
    ELSE Outcome(exists(c.filterKeys, index, f.anchors), FALSE,
                 [t EXCEPT !.allKeys = AllKeysOf(reqKeys, c.filterKeys),
                           !.anchors = SortedKeys(c.filterKeys)],
                 f.calls + 1,
                 DeleteByAnchor(tdb, t.cid, t.app, t.uri, c.filterKeys),
                 (index :> c.fc) @@ f.fieldCounts,
                 (index :> c.nf) @@ f.noisyFields,
                 (index :> Append(AnchorsOf(f.anchors, index), SortedKeys(c.filterKeys)))
                     @@ f.anchors)

(* isDup from the return of fillCache on *)
isDupFilled(t, index, f, reqKeys, deleteOk) ==
    IF f.err
    THEN Outcome(FALSE, TRUE, t, f.calls, tdb, f.fieldCounts, f.noisyFields, f.anchors)
    ELSE isDupCounted(t, index, f, reqKeys,
                      CountKeys(f.fieldCounts[index], f.noisyFields[index], reqKeys),
                      deleteOk)

isDup(t, keysOk, deleteOk) ==
    isDupFilled(t, Index(t.cid, t.app, t.uri), fillCache(t, keysOk), ReqKeys(t), deleteOk)

(* putTC with EnableDeDup off: isDup is not called *)
NoDup(t) == Outcome(FALSE, FALSE, t, 0, tdb, fieldCounts, noisyFields, anchors)

(* putTC: the id returned when there is no error *)
IdOfAlways(dup, t) == t.id

IdOf(dup, t) == IF dup THEN "" ELSE t.id

(* putTC upserting a duplicate as well *)
putTCStoreDup(d, upsertOk) ==
    IF d.err THEN d
    ELSE IF ~upsertOk THEN [d EXCEPT !.err = TRUE, !.calls = @ + 1]
    ELSE [d EXCEPT !.calls = @ + 1, !.tdb = TcUpsert(d.tdb, d.t)]

(* putTC after isDup: a case that is not a duplicate is upserted *)
putTCStore(d, upsertOk) ==
    IF d.err \/ d.dup THEN d
    ELSE IF ~upsertOk THEN [d EXCEPT !.err = TRUE, !.calls = @ + 1]
    ELSE [d EXCEPT !.calls = @ + 1, !.tdb = TcUpsert(d.tdb, d.t)]

putTCAs(t, keysOk, deleteOk, upsertOk) ==
    putTCStore(IF enableDeDup THEN isDup(t, keysOk, deleteOk) ELSE NoDup(t), upsertOk)

putTC(cid, t0, keysOk, deleteOk, upsertOk) ==
    putTCAs([t0 EXCEPT !.cid = cid], keysOk, deleteOk, upsertOk)

(* Put, up to the loop: an empty batch is refused at once *)
PutCall(cid, tcs) ==
    /\ putPc = "idle"
    /\ Len(history) + Len(tcs) <= MaxCaptures
    /\ IF Len(tcs) = 0
       THEN /\ putRet' = [NoPutRet EXCEPT !.kind = "err"]
            /\ UNCHANGED <<putPc, putCid, putBatch, putIds>>
       ELSE /\ putPc' = "loop"
            /\ putCid' = cid
            /\ putBatch' = tcs
            /\ putIds' = <<>>
            /\ putRet' = [NoPutRet EXCEPT !.kind = "running", !.batch = tcs]
    /\ UNCHANGED <<fieldCounts, noisyFields, anchors, enableDeDup, history, tdb>>
    /\ UNCHANGED <<runVars, auxVars>>

(* Put: one iteration of the loop, and the return after the last one *)
PutTC(keysOk, deleteOk, upsertOk) ==
    /\ putPc = "loop"
    /\ \E r \in {putTC(putCid, Head(putBatch), keysOk, deleteOk, upsertOk)} :
       LET t == Head(putBatch)
           id == IdOf(r.dup, r.t)
           seen == [putRet EXCEPT !.calls = @ + r.calls]
       IN /\ fieldCounts' = r.fieldCounts
          /\ noisyFields' = r.noisyFields
          /\ anchors' = r.anchors
          /\ tdb' = r.tdb
          /\ history' = Append(history, [id |-> t.id, req |-> t.req, dup |-> r.dup,
                                         err |-> r.err])
          /\ IF r.err
             THEN /\ putRet' = [seen EXCEPT !.kind = "err", !.ids = putIds]
                  /\ putPc' = "idle"
                  /\ putBatch' = <<>>
                  /\ putIds' = <<>>
                  /\ putCid' = ""
             ELSE IF Len(putBatch) = 1
             THEN /\ putRet' = [seen EXCEPT !.kind = "ok", !.ids = Append(putIds, id),
                                            !.dups = Append(@, r.dup)]
                  /\ putPc' = "idle"
                  /\ putBatch' = <<>>
                  /\ putIds' = <<>>
                  /\ putCid' = ""
             ELSE /\ putRet' = [seen EXCEPT !.dups = Append(@, r.dup)]
                  /\ putIds' = Append(putIds, id)
                  /\ putBatch' = Tail(putBatch)
                  /\ UNCHANGED <<putPc, putCid>>
    /\ UNCHANGED enableDeDup
    /\ UNCHANGED <<runVars, auxVars>>

(* The captures of the model: three requests that differ in the timestamp  *)
(* header only, and one whose body is a JSON array out of order             *)
ReqStamped(ts) == Req(("timestamp" :> <<ts>>) @@ ("accept" :> <<"json">>), EmptyMap, "")

CaptureReqs == {ReqStamped("t1"), ReqStamped("t2"), ReqStamped("t3"),
                Req(EmptyMap, EmptyMap, BodyBA)}
CaptureIds == {"c1", "c2", "c3"}
Cids == {"co"}

CaptureCases ==
    {Case(id, "app", "/b10aliens", req, Resp(200, EmptyMap, ""), {}) :
        id \in CaptureIds, req \in CaptureReqs}

Batches == {<<>>} \cup {<<t>> : t \in CaptureCases}
             \cup {<<t, u>> : t \in CaptureCases, u \in CaptureCases}

InitCapture ==
    InitRun /\ InitCapIdle /\ hdr = NoHdr /\ enableDeDup \in BOOLEAN /\ tdb = EmptyMap

NextCapture ==
    \/ \E cid \in Cids, tcs \in Batches : PutCall(cid, tcs)
    \/ \E keysOk, deleteOk, upsertOk \in BOOLEAN : PutTC(keysOk, deleteOk, upsertOk)

SpecCapture == InitCapture /\ [][NextCapture]_vars

----------------------------------------------------------------------------
(* Claims about replay and the run lifecycle *)

TestsOf(r) == Cardinality({i \in DOMAIN rdbTests : rdbTests[i].run = r})
Counted(r) == Counters(rdbRuns, r)[1] + Counters(rdbRuns, r)[2]

(* C2: after N Test calls for a run have ended, whatever their store calls *)
(* did, the run's stored success + failure is N.                            *)
C2_CounterConservation ==
    \A r \in RunIds : testPc = "idle" => Counted(r) = testCalls[r]

(* C3, as stated: in every reachable state each run's stored success +     *)
(* failure is at most the number of Test records stored with its id.        *)
C3_CountersWithinTests ==
    \A r \in RunIds : Counted(r) <= TestsOf(r)

(* C3, amended: the bound holds for every run that no Put has written with *)
(* counters above zero, under any interleaving of Test, Get and Put.        *)
C3_CountersWithinTestsUnlessPut ==
    \A r \in RunIds \ counted : Counted(r) <= TestsOf(r)

C3_Witness ==
    \E r \in RunIds \ counted :
        /\ Counted(r) = 2
        /\ getLast.act = "failed"
        /\ puts > 0
        /\ rdbRuns[r].status = Failed

(* a step of failOldTestRuns, and any step of RunManager.Get *)
GetFailStep == getPc = "fail" /\ getPc' # "fail"
GetStep == <<getPc, getTrs, getI, getTests, getRet, getLast>>' #
           <<getPc, getTrs, getI, getTests, getRet, getLast>>

StoredFailed(runs, id) == id \in DOMAIN runs /\ runs[id].status = Failed

C5_EmptyAlwaysFailed ==
    [][GetFailStep /\ getTests = <<>> =>
         \/ StoredFailed(rdbRuns', getTrs[getI].id)
         \/ getRet' = "err"]_vars

(* C5, amended: a Running run without child tests is stored as Failed if   *)
(* and only if it was created 5 minutes or more before now; a younger one   *)
(* is left as it is.                                                        *)
C5_EmptyFailedWhenOld ==
    [][GetFailStep /\ getTests = <<>> =>
         LET tr == getTrs[getI]
         IN IF now - tr.created >= StallTicks
            THEN \/ getRet' # "err" /\ StoredFailed(rdbRuns', tr.id)
                 \/ getRet' = "err" /\ rdbRuns' = rdbRuns
            ELSE getRet' # "err" /\ rdbRuns' = rdbRuns]_vars

C5_Witness == getLast = [kind |-> "empty", act |-> "failed"]

(* C6: once a run's stored status is Passed or Failed, no step of Get      *)
(* changes it.                                                              *)
C6_EndedStatusKept ==
    [][\A r \in DOMAIN rdbRuns :
         rdbRuns[r].status \in {Passed, Failed} /\ GetStep =>
             r \in DOMAIN rdbRuns' /\ rdbRuns'[r].status = rdbRuns[r].status]_vars

(* C9: Test returns a non-nil error exactly when loading the test case or  *)
(* storing the result failed, and then a Failed Test record is persisted.   *)
C9_ErrorOnStoreFailure ==
    testRet.kind \in {"ret", "panic"} =>
        LET broken == ~testRet.loaded \/ ~testRet.saved \/ ~testRet.counted
        IN /\ (testRet.kind = "ret" /\ testRet.err) <=> broken
           /\ broken => \E i \in DOMAIN rdbTests :
                            rdbTests[i].run = testRet.run /\ rdbTests[i].status = Failed

(* C10: for a loaded test case Test passes iff the status codes are equal, *)
(* CompareHeaders accepts the headers and the body is accepted ("body" in   *)
(* the noise, else Match for a JSON observed body, else equal texts); the   *)
(* persisted record is Passed iff it passed, and the counter incremented is *)
(* success iff the record is Passed, else failure.                          *)
BodyAccepted(tc, resp) ==
    \/ <<"body">> \in tc.noise
    \/ /\ JsonValid(resp.body)
       /\ Match(tc.resp.body, resp.body, BodyNoiseOf(tc.noise)) = [pass |-> TRUE, err |-> FALSE]
    \/ /\ ~JsonValid(resp.body)
       /\ tc.resp.body = resp.body

Verdict(tc, resp) ==
    /\ tc.resp.status = resp.status
    /\ CompareHeaders(tc.resp.header, resp.header, HeaderNoiseOf(tc.noise))
    /\ BodyAccepted(tc, resp)

C10_VerdictAndCounters ==
    testRet.loaded =>
        LET pass == Verdict(tdb[testRet.tc], testRet.resp)
        IN /\ testRet.ok = pass
           /\ testRet.saved =>
                  rdbTests[Len(rdbTests)].status = (IF pass THEN Passed ELSE Failed)
           /\ testRet.kind = "ret" =>
                  testRet.delta = (IF ~testRet.counted THEN <<0, 0>>
                                   ELSE IF testRet.status = Passed THEN <<1, 0>>
                                   ELSE <<0, 1>>)

C10_Witness ==
    /\ testRet.kind = "ret"
    /\ testRet.counted
    /\ testRet.ok
    /\ testRet.tc = "tcB"
    /\ testRet.resp.body = BodyTs2
    /\ Counters(rdbRuns, testRet.run) = <<1, 1>>

----------------------------------------------------------------------------
(* Claims about capture *)

CaptureIndex == Index("co", "app", "/b10aliens")
StoredFor(req) == {id \in DOMAIN tdb : tdb[id].req = req}
ComboOf(req) == SortedKeys(ReqKeys([req |-> req]))
EntriesFor(combo) ==
    {i \in DOMAIN AnchorsOf(anchors, CaptureIndex) : AnchorsOf(anchors, CaptureIndex)[i] = combo}

SameTwice ==
    /\ enableDeDup
    /\ putPc = "idle"
    /\ Len(history) = 2
    /\ history[1].req = history[2].req
    /\ ~history[1].err /\ ~history[2].err

(* C1: with dedup on, after the same request was captured twice through    *)
(* Put (no store call failing), the store holds exactly one TestCase for    *)
(* that request and anchors[index] exactly one entry for its anchor         *)
(* combination.                                                             *)
C1_DedupIdempotent ==
    SameTwice =>
        /\ Cardinality(StoredFor(history[1].req)) = 1
        /\ Cardinality(EntriesFor(ComboOf(history[1].req))) = 1

(* C7: Put with an empty batch returns an error without a store call; a    *)
(* Put that returns without error hands back one slot per input case, in    *)
(* input order: "" where isDup reported a duplicate, else the id of the     *)
(* case, which was then upserted; a non-empty Put ends in an error only     *)
(* when a store call failed.                                                *)
C7_PutSlots ==
    LET n == Len(putRet.batch)
        off == Len(history) - n
    IN /\ (putRet.kind = "err" /\ n = 0) => putRet.ids = <<>> /\ putRet.calls = 0
       /\ (putRet.kind = "err" /\ n > 0) => history[Len(history)].err
       /\ putRet.kind = "ok" =>
            /\ n > 0
            /\ Len(putRet.ids) = n
            /\ \A i \in 1..n :
                 /\ history[off + i].id = putRet.batch[i].id
                 /\ ~history[off + i].err
                 /\ history[off + i].dup = putRet.dups[i]
                 /\ putRet.ids[i] = (IF putRet.dups[i] THEN "" ELSE putRet.batch[i].id)

C7_Witness ==
    /\ putRet.kind = "ok"
    /\ Len(putRet.batch) = 2
    /\ putRet.dups = <<FALSE, TRUE>>
    /\ putRet.ids[1] = putRet.batch[1].id
    /\ putRet.ids[2] = ""

StampPath == <<"header", "timestamp">>
StampedReqs == {ReqStamped(ts) : ts \in {"t1", "t2", "t3"}}

ThreeStamped ==
    /\ enableDeDup
    /\ putPc = "idle"
    /\ Len(history) = 3
    /\ \A i \in 1..3 : ~history[i].err /\ history[i].req \in StampedReqs
    /\ \A i, j \in 1..3 : i # j => history[i].req # history[j].req

StampValues ==
    IF CaptureIndex \in DOMAIN fieldCounts
    THEN DOMAIN CountsOf(fieldCounts[CaptureIndex], StampPath)
    ELSE {}

(* C8, as stated: after three captures to one index that differ in the     *)
(* timestamp header only, at most one TestCase is in the store and          *)
(* fieldCounts[index]["header.timestamp"] holds three distinct values.      *)
C8_AtMostOnePersists ==
    ThreeStamped => Cardinality(DOMAIN tdb) <= 1 /\ Cardinality(StampValues) = 3

(* C8, amended: after such three captures none was reported a duplicate    *)
(* (below 20 counted values the timestamp header is still an anchor), the   *)
(* store holds one TestCase per id the captures carried, three when the     *)
(* ids differ, anchors[index] holds three combinations, and                 *)
(* fieldCounts[index]["header.timestamp"] holds three distinct values.      *)
C8_EveryStampPersists ==
    ThreeStamped =>
        /\ \A i \in 1..3 : ~history[i].dup
        /\ DOMAIN tdb = {history[i].id : i \in 1..3}
        /\ Len(AnchorsOf(anchors, CaptureIndex)) = 3
        /\ StampPath \notin noisyFields[CaptureIndex]
        /\ Cardinality(StampValues) = 3

C8_Witness == ThreeStamped /\ Cardinality(DOMAIN tdb) = 3

----------------------------------------------------------------------------
(* Regression.DeNoise and Run.Normalize *)

(* the error value a failing store call hands back, and the fixed errors   *)
(* the operations make up themselves                                        *)
StoreErr == "store error"
FixedErrs == {"internal failure", "failed saving testcase", "no testcase to update",
              "test not found", "testcase not found", "could not update testcase"}

(* addBody: a JSON body is flattened below "body", any other is raw text *)
addBody(body) ==
    IF JsonValid(body)
    THEN [p \in {<<"body">> \o x : x \in DOMAIN flatten(JsonUnmarshal(body))} |->
             flatten(JsonUnmarshal(body))[Tail(p)]]
    ELSE (<<"body">> :> <<body>>)

(* DeNoise: the flat map of a response, headers below "header" *)
FlatResp(header, body) ==
    [p \in {<<"header", x>> : x \in DOMAIN header} |-> <<Join(header[p[2]])>>]
        @@ addBody(body)

(* DeNoise: the paths of a that b lacks or holds with other values *)
NoiseOfEitherSide(a, b) ==
    {k \in DOMAIN a \cup DOMAIN b : k \notin DOMAIN a \/ k \notin DOMAIN b \/ a[k] # b[k]}

NoiseOf(a, b) == {k \in DOMAIN a : k \notin DOMAIN b \/ a[k] # b[k]}

(* tc.Noise = noise *)
StoredNoiseUnion(old, noise) == old \cup noise

StoredNoise(old, noise) == noise

mntFrame == <<fieldCounts, noisyFields, anchors, enableDeDup, putPc, putCid, putBatch,
              putIds, putRet, history, hdr, mu, cpc, cloc>>

DeNoise(id, body, h, getOk, upsertOk) ==
    /\ LET call == [NoOpRet EXCEPT !.op = "DeNoise", !.id = id, !.header = h,
                                   !.body = body]
       IN IF ~(getOk /\ id \in DOMAIN tdb)
          THEN /\ opRet' = [call EXCEPT !.failed = "get", !.err = StoreErr]
               /\ UNCHANGED tdb
          ELSE IF ~upsertOk
          THEN /\ opRet' = [call EXCEPT !.failed = "upsert", !.err = StoreErr]
               /\ UNCHANGED tdb
          ELSE /\ opRet' = call
               /\ tdb' = TcUpsert(tdb,
                            [tdb[id] EXCEPT !.noise =
                                StoredNoise(@, NoiseOf(FlatResp(tdb[id].resp.header,
                                                                tdb[id].resp.body),
                                                       FlatResp(h, body)))])
    /\ UNCHANGED <<runVars, mntFrame>>

(* Normalize: tc.HttpResp = t.Resp *)
NormalizedClearingNoise(tc, t) == [tc EXCEPT !.resp = t.resp, !.noise = {}]

Normalized(tc, t) == [tc EXCEPT !.resp = t.resp]

(* RunDB.ReadTest: the Test with the given id; ids are positions *)
ReadTest(tests, id) == tests[id]

Normalize(id, readOk, getOk, upsertOk) ==
    /\ LET call == [NoOpRet EXCEPT !.op = "Normalize", !.test = id]
       IN IF ~(readOk /\ id \in DOMAIN rdbTests)
          THEN /\ opRet' = [call EXCEPT !.failed = "readTest", !.err = "test not found"]
               /\ UNCHANGED tdb
          ELSE IF ~(getOk /\ ReadTest(rdbTests, id).tc \in DOMAIN tdb)
          THEN /\ opRet' = [call EXCEPT !.failed = "get", !.err = "testcase not found",
                                        !.id = ReadTest(rdbTests, id).tc]
               /\ UNCHANGED tdb
          ELSE IF ~upsertOk
          THEN /\ opRet' = [call EXCEPT !.failed = "upsert",
                                        !.err = "could not update testcase",
                                        !.id = ReadTest(rdbTests, id).tc]
               /\ UNCHANGED tdb
          ELSE /\ opRet' = [call EXCEPT !.id = ReadTest(rdbTests, id).tc]
               /\ tdb' = TcUpsert(tdb, Normalized(tdb[ReadTest(rdbTests, id).tc],
                                                  ReadTest(rdbTests, id)))
    /\ UNCHANGED <<runVars, mntFrame>>

(* Learning and accepting: DeNoise and Normalize over the stored cases,    *)
(* with the replays that leave the Test records Normalize reads             *)
NoiseIds == {"tcA", "tcB", "gone"}
NoiseObs == {Resp(200, Etag("e1"), BodyTs1), Resp(200, Etag("e2"), BodyTs2),
             Resp(200, EmptyMap, BodyPlain)}
MaintInputs ==
    {<<"tcA", Resp(500, Etag("e1"), BodyTs1)>>, <<"tcB", Resp(200, Etag("e2"), BodyTs2)>>}

NextMaintain ==
    \/ \E id \in NoiseIds, obs \in NoiseObs, getOk, upsertOk \in BOOLEAN :
          DeNoise(id, obs.body, obs.header, getOk, upsertOk)
    \/ \E id \in 1..MaxTests, readOk, getOk, upsertOk \in BOOLEAN :
          Normalize(id, readOk, getOk, upsertOk)
    \/ \E r \in RunIds, in \in MaintInputs, loadOk, putOk \in BOOLEAN :
          TestCall(r, in[1], in[2], loadOk, putOk) /\ UNCHANGED <<testRet, testCalls>>
    \/ \E ok \in BOOLEAN : TestInc(ok) /\ UNCHANGED <<testRet, testCalls>>

SpecMaintain == InitReplay /\ [][NextMaintain]_vars

----------------------------------------------------------------------------
(* Claims about DeNoise, Normalize and the errors handed to callers *)

(* p is a path of the stored response that the observation lacks or holds  *)
(* with other values                                                        *)
Differs(p, stored, header, body) ==
    /\ p \in DOMAIN FlatResp(stored.header, stored.body)
    /\ \/ p \notin DOMAIN FlatResp(header, body)
       \/ FlatResp(stored.header, stored.body)[p] # FlatResp(header, body)[p]

(* C11: after a DeNoise that succeeded, the noise of the test case is      *)
(* exactly the set of flattened paths of the stored response that the       *)
(* observed response lacks or holds with unequal values: a path of the      *)
(* observed response alone, or one with equal values, is not in it.         *)
C11_NoiseIsStoredSideDiff ==
    (opRet.op = "DeNoise" /\ opRet.err = "nil") =>
        LET tc == tdb[opRet.id]
        IN \A p \in tc.noise \cup DOMAIN FlatResp(tc.resp.header, tc.resp.body)
                    \cup DOMAIN FlatResp(opRet.header, opRet.body) :
              p \in tc.noise <=> Differs(p, tc.resp, opRet.header, opRet.body)

C11_Witness ==
    /\ opRet.op = "DeNoise" /\ opRet.err = "nil"
    /\ opRet.id = "tcA" /\ opRet.body = BodyTs2
    /\ <<"body", "ts">> \in tdb["tcA"].noise
    /\ <<"body", "user">> \notin tdb["tcA"].noise

(* a step in which DeNoise succeeded on the test case id *)
DeNoiseDone(id) ==
    /\ opRet'.op = "DeNoise" /\ opRet'.err = "nil" /\ opRet'.id = id
    /\ (opRet' # opRet \/ tdb' # tdb)

(* C12, as stated: a path in the noise of a test case before a DeNoise     *)
(* call on it is still in its noise after the call.                         *)
C12_NoiseOnlyGrows ==
    [][\A id \in DOMAIN tdb : DeNoiseDone(id) => tdb[id].noise \subseteq tdb'[id].noise]_vars

(* C12, amended: each DeNoise call replaces the noise: a path that was in  *)
(* the noise before the call is in it afterwards if and only if the         *)
(* observation of this call lacks it or holds it with unequal values.       *)
C12_NoiseReplaced ==
    [][\A id \in DOMAIN tdb : DeNoiseDone(id) =>
          \A p \in tdb[id].noise :
              p \in tdb'[id].noise <=> Differs(p, tdb[id].resp, opRet'.header, opRet'.body)]_vars

C12_Witness ==
    /\ opRet.op = "DeNoise" /\ opRet.err = "nil" /\ opRet.id = "tcB"
    /\ ReplayCases["tcB"].noise # {}
    /\ tdb["tcB"].noise = {}

(* a step of Normalize *)
NormalizeStep == opRet'.op = "Normalize" /\ (opRet' # opRet \/ tdb' # tdb)

(* C13: a Normalize that succeeded leaves the response of the Test's       *)
(* parent TestCase equal to the Test's observed response, every other       *)
(* field of it and every other TestCase as they were; when the Test or the  *)
(* TestCase cannot be read the error is a not-found error and the store is  *)
(* not written.                                                             *)
C13_NormalizeFrame ==
    [][NormalizeStep =>
         IF opRet'.err = "nil"
         THEN LET t == rdbTests[opRet'.test]
              IN /\ DOMAIN tdb' = DOMAIN tdb
                 /\ tdb'[t.tc].resp = t.resp
                 /\ \A f \in DOMAIN tdb[t.tc] \ {"resp"} : tdb'[t.tc][f] = tdb[t.tc][f]
                 /\ \A id \in DOMAIN tdb \ {t.tc} : tdb'[id] = tdb[id]
         ELSE /\ tdb' = tdb
              /\ opRet'.failed \in {"readTest", "get"} =>
                     opRet'.err \in {"test not found", "testcase not found"}]_vars

C13_Witness ==
    /\ opRet.op = "Normalize" /\ opRet.err = "nil" /\ opRet.id = "tcB"
    /\ tdb["tcB"].resp = Resp(200, Etag("e2"), BodyTs2)
    /\ tdb["tcB"].noise = ReplayCases["tcB"].noise

(* C14: an operation that failed because a store call failed hands its     *)
(* caller one of the fixed errors, never the error the store returned.      *)
C14_OpaqueErrors == opRet.failed # "none" => opRet.err \in FixedErrs

----------------------------------------------------------------------------
(* pkg.CompareHeaders called on its own: the HeaderResult list it appends   *)
(* to and the table of TestCompareHeader.                                   *)

(* run.Header{Key, Value}; Value is nil for a key the map lacks *)
HeaderOf(m, key) ==
    IF key \in DOMAIN m THEN [key |-> key, value |-> m[key], nil |-> FALSE]
    ELSE [key |-> key, value |-> <<>>, nil |-> TRUE]

HeaderResult(expected, actual, noise, key) ==
    [normal |-> HeaderNormal(expected, actual, noise, key),
     expected |-> HeaderOf(expected, key), actual |-> HeaderOf(actual, key)]

(* the list appended to *out: the keys of expected, then those of actual    *)
(* that expected lacks                                                      *)
HeaderResults(expected, actual, noise) ==
    LET ks == SetToSeq(DOMAIN expected) \o SetToSeq(DOMAIN actual \ DOMAIN expected)
    IN [i \in 1..Len(ks) |-> HeaderResult(expected, actual, noise, ks[i])]

HdrRow(normal, key, ev, av) ==
    [normal |-> normal,
     expected |-> [key |-> key, value |-> ev, nil |-> FALSE],
     actual |-> [key |-> key, value |-> av, nil |-> FALSE]]

HdrRowNoExp(normal, key, av) ==
    [normal |-> normal,
     expected |-> [key |-> key, value |-> <<>>, nil |-> TRUE],
     actual |-> [key |-> key, value |-> av, nil |-> FALSE]]

HdrRowNoAct(normal, key, ev) ==
    [normal |-> normal,
     expected |-> [key |-> key, value |-> ev, nil |-> FALSE],
     actual |-> [key |-> key, value |-> <<>>, nil |-> TRUE]]

(* The table of TestCompareHeader: exp, actual, noise, hdrResult, result *)
HeaderTable ==
    << [exp |-> ("id" :> <<"1234">>) @@ ("app" :> <<"sports", "study">>),
        actual |-> ("id" :> <<"1234">>) @@ ("app" :> <<"sports", "study">>),
        noise |-> {},
        hdrResult |-> {HdrRow(TRUE, "id", <<"1234">>, <<"1234">>),
                       HdrRow(TRUE, "app", <<"sports", "study">>, <<"sports", "study">>)},
        result |-> TRUE],
       [exp |-> ("Content-Length" :> <<"gg">>) @@ ("id" :> <<"1234">>),
        actual |-> ("Content-Length" :> <<"sj">>) @@ ("id" :> <<"1234">>)
                   @@ ("app" :> <<"sports", "study">>),
        noise |-> {},
        hdrResult |-> {HdrRow(TRUE, "id", <<"1234">>, <<"1234">>),
                       HdrRowNoExp(FALSE, "app", <<"sports", "study">>),
                       HdrRow(FALSE, "Content-Length", <<"gg">>, <<"sj">>)},
        result |-> FALSE],
       [exp |-> ("id" :> <<"1234">>) @@ ("app" :> <<"sports", "study">>),
        actual |-> ("app" :> <<"sports", "study">>),
        noise |-> {},
        hdrResult |-> {HdrRowNoAct(FALSE, "id", <<"1234">>),
                       HdrRow(TRUE, "app", <<"sports", "study">>, <<"sports", "study">>)},
        result |-> FALSE],
       [exp |-> ("id" :> <<"1234">>) @@ ("app" :> <<"sports", "study", "code">>),
        actual |-> ("id" :> <<"1234">>) @@ ("app" :> <<"sports", "eat", "code">>),
        noise |-> {},
        hdrResult |-> {HdrRow(TRUE, "id", <<"1234">>, <<"1234">>),
                       HdrRow(FALSE, "app", <<"sports", "study", "code">>,
                              <<"sports", "eat", "code">>)},
        result |-> FALSE],
       [exp |-> ("id" :> <<"1234">>) @@ ("app" :> <<"sports", "code">>),
        actual |-> ("id" :> <<"1234">>) @@ ("app" :> <<"sports", "eat", "code">>),
        noise |-> {},
        hdrResult |-> {HdrRow(TRUE, "id", <<"1234">>, <<"1234">>),
                       HdrRow(FALSE, "app", <<"sports", "code">>,
                              <<"sports", "eat", "code">>)},
        result |-> FALSE],
       [exp |-> ("app" :> <<>>),
        actual |-> ("app" :> <<>>),
        noise |-> {},
        hdrResult |-> {HdrRow(TRUE, "app", <<>>, <<>>)},
        result |-> TRUE],
       [exp |-> EmptyMap,
        actual |-> EmptyMap,
        noise |-> {},
        hdrResult |-> {},
        result |-> TRUE],
       [exp |-> ("etag" :> <<"0/dfjnrgs">>) @@ ("content-length" :> <<"26">>),
        actual |-> ("etag" :> <<"2/fdvtgt">>) @@ ("content-length" :> <<"22">>),
        noise |-> {"etag", "content-length"},
        hdrResult |-> {HdrRow(TRUE, "etag", <<"0/dfjnrgs">>, <<"2/fdvtgt">>),
                       HdrRow(TRUE, "content-length", <<"26">>, <<"22">>)},
        result |-> TRUE],
       [exp |-> ("etag" :> <<"0/dfjnrgs">>) @@ ("content-length" :> <<"26">>),
        actual |-> ("etag" :> <<"2/fdvtgt">>) @@ ("content-length" :> <<"22">>)
                   @@ ("host" :> <<"express">>),
        noise |-> {"host"},
        hdrResult |-> {HdrRow(FALSE, "etag", <<"0/dfjnrgs">>, <<"2/fdvtgt">>),
                       HdrRow(FALSE, "content-length", <<"26">>, <<"22">>),
                       HdrRowNoExp(TRUE, "host", <<"express">>)},
        result |-> FALSE] >>

(* Further header maps: each of two keys absent or holding one of two lists *)
HeaderKeys == {"etag", "host"}
HeaderValues == {<<"a">>, <<"b">>}

HeaderMaps ==
    UNION {[ks -> HeaderValues] : ks \in SUBSET HeaderKeys}

HeaderInputs ==
    {[expected |-> HeaderTable[i].exp, actual |-> HeaderTable[i].actual,
      noise |-> HeaderTable[i].noise] : i \in DOMAIN HeaderTable}
    \cup {[expected |-> e, actual |-> a, noise |-> n] :
             e \in HeaderMaps, a \in HeaderMaps, n \in SUBSET HeaderKeys}

(* res := CompareHeaders(tt.exp, tt.actual, &hdrResult, tt.noise) *)
CompareHeadersCall ==
    /\ ~hdr.done
    /\ hdr' = [hdr EXCEPT !.done = TRUE,
                          !.res = HeaderResults(hdr.expected, hdr.actual, hdr.noise),
                          !.ret = CompareHeaders(hdr.expected, hdr.actual, hdr.noise)]
    /\ UNCHANGED <<runVars, tdb, fieldCounts, noisyFields, anchors, enableDeDup, putPc,
                   putCid, putBatch, putIds, putRet, history, opRet, mu, cpc, cloc>>

InitHeaders ==
    /\ InitRun /\ InitCapIdle /\ enableDeDup = TRUE /\ tdb = EmptyMap
    /\ \E in \in HeaderInputs :
          hdr = [expected |-> in.expected, actual |-> in.actual, noise |-> in.noise,
                 done |-> FALSE, res |-> <<>>, ret |-> FALSE]

NextHeaders == CompareHeadersCall

SpecHeaders == InitHeaders /\ [][NextHeaders]_vars

----------------------------------------------------------------------------
(* Concurrent callers of one Regression instance: each worker is a request  *)
(* handler inside putTC (fillCache, isDup, Upsert) or inside DeleteTC.  A   *)
(* step is the code between two points where another handler can run: the   *)
(* mutex Lock, and each read and write of the three maps that isDup makes   *)
(* with no lock held.  cpc is the position of a worker, cloc its locals     *)
(* (with the counts of what it has completed), mu the holder of r.mu (0 is  *)
(* unlocked).  The store calls succeed in this specification.               *)

MaxCalls == 2

ConcCases ==
    {Case("c1", "app", "/b10aliens", ReqStamped("t1"), Resp(200, EmptyMap, ""), {}),
     Case("c2", "app", "/b10aliens", ReqStamped("t2"), Resp(200, EmptyMap, ""), {})}

ConcIndex == Index("co", "app", "/b10aliens")

IndexOf(t) == Index(t.cid, t.app, t.uri)

concFrame == <<runVars, enableDeDup, putPc, putCid, putBatch, putIds, putRet, history,
               opRet, hdr>>

(* putTC: t.CID = cid, and the call of isDup reaches fillCache *)
PutStart(w, t) ==
    /\ cpc[w] = "idle"
    /\ cloc[w].calls < MaxCalls
    /\ cpc' = [cpc EXCEPT ![w] = "check"]
    /\ cloc' = [cloc EXCEPT ![w].t = [t EXCEPT !.cid = "co"], ![w].calls = @ + 1]
    /\ UNCHANGED <<concFrame, tdb, fieldCounts, noisyFields, anchors, mu>>

(* fillCache: the check before the lock *)
FillCheck(w) ==
    /\ cpc[w] = "check"
    /\ cpc' = [cpc EXCEPT ![w] =
                  IF IndexOf(cloc[w].t) \in DOMAIN noisyFields
                     /\ IndexOf(cloc[w].t) \in DOMAIN fieldCounts
                  THEN "count" ELSE "lock"]
    /\ UNCHANGED <<concFrame, tdb, fieldCounts, noisyFields, anchors, mu, cloc>>

(* fillCache: r.mu.Lock() *)
FillLock(w) ==
    /\ cpc[w] = "lock"
    /\ mu = 0
    /\ mu' = w
    /\ cpc' = [cpc EXCEPT ![w] = "fill"]
    /\ cloc' = [cloc EXCEPT ![w].locked = @ + 1]
    /\ UNCHANGED <<concFrame, tdb, fieldCounts, noisyFields, anchors>>

(* fillCache under the lock: the check again, the fill, the deferred Unlock *)
FillBody(w) ==
    /\ cpc[w] = "fill"
    /\ mu = w
    /\ \E f \in {fillCache(cloc[w].t, TRUE)} :
          /\ fieldCounts' = f.fieldCounts
          /\ noisyFields' = f.noisyFields
          /\ anchors' = f.anchors
          /\ cloc' = [cloc EXCEPT ![w].installed = @ + f.calls]
    /\ mu' = 0
    /\ cpc' = [cpc EXCEPT ![w] = "count"]
    /\ UNCHANGED <<concFrame, tdb>>

(* isDup, the loop over reqKeys, reading: noisyFields[index][k] and the     *)
(* counts fieldCounts[index][k][s] that the loop will add one to            *)
CountRead(w) ==
    /\ cpc[w] = "count"
    /\ cloc' = [cloc EXCEPT ![w].c = CountKeys(fieldCounts[IndexOf(cloc[w].t)],
                                               noisyFields[IndexOf(cloc[w].t)],
                                               ReqKeys(cloc[w].t))]
    /\ cpc' = [cpc EXCEPT ![w] = "cwrite"]
    /\ UNCHANGED <<concFrame, tdb, fieldCounts, noisyFields, anchors, mu>>

(* the entries the loop assigns: for each counted key the values of the     *)
(* request; the other entries stay as the map holds them now                *)
MergeCounts(cur, c, reqKeys) ==
    [k \in DOMAIN cur \cup DOMAIN c.fc |->
        IF k \in DOMAIN c.fc /\ k \in DOMAIN reqKeys
        THEN [v \in DOMAIN CountsOf(cur, k) \cup Range(reqKeys[k]) |->
                 IF v \in Range(reqKeys[k]) /\ v \in DOMAIN c.fc[k]
                 THEN c.fc[k][v] ELSE cur[k][v]]
        ELSE cur[k]]

(* isDup, the loop over reqKeys, writing; with no filterKeys isDup returns  *)
(* true and putTC returns without a store call                              *)
CountWrite(w) ==
    /\ cpc[w] = "cwrite"
    /\ LET index == IndexOf(cloc[w].t)
           c == cloc[w].c
       IN /\ fieldCounts' = [fieldCounts EXCEPT
                                ![index] = MergeCounts(@, c, ReqKeys(cloc[w].t))]
          /\ noisyFields' = [noisyFields EXCEPT ![index] = @ \cup c.nf]
          /\ cpc' = [cpc EXCEPT ![w] = IF DOMAIN c.filterKeys = {} THEN "idle"
                                       ELSE "exists"]
          /\ cloc' = [cloc EXCEPT ![w].counted = @ + 1]
    /\ UNCHANGED <<concFrame, tdb, anchors, mu>>

(* isDup: DeleteByAnchor, exists, and the read of r.anchors[index] that     *)
(* append starts from                                                       *)
ExistsRead(w) ==
    /\ cpc[w] = "exists"
    /\ LET t == cloc[w].t
           index == IndexOf(t)
       IN /\ tdb' = DeleteByAnchor(tdb, t.cid, t.app, t.uri, cloc[w].c.filterKeys)
          /\ cloc' = [cloc EXCEPT ![w].dup = exists(cloc[w].c.filterKeys, index, anchors),
                                  ![w].an = AnchorsOf(anchors, index)]
    /\ cpc' = [cpc EXCEPT ![w] = "append"]
    /\ UNCHANGED <<concFrame, fieldCounts, noisyFields, anchors, mu>>

(* isDup: r.anchors[index] = append(...), the return, and the Upsert of     *)
(* putTC for a case that is no duplicate                                    *)
AppendWrite(w) ==
    /\ cpc[w] = "append"
    /\ LET t == cloc[w].t
           fk == cloc[w].c.filterKeys
           stored == [t EXCEPT !.allKeys = AllKeysOf(ReqKeys(t), fk),
                               !.anchors = SortedKeys(fk)]
       IN /\ anchors' = (IndexOf(t) :> Append(cloc[w].an, SortedKeys(fk))) @@ anchors
          /\ tdb' = IF cloc[w].dup THEN tdb ELSE TcUpsert(tdb, stored)
    /\ cloc' = [cloc EXCEPT ![w].appended = @ + 1]
    /\ cpc' = [cpc EXCEPT ![w] = "idle"]
    /\ UNCHANGED <<concFrame, fieldCounts, noisyFields, mu>>

(* DeleteTC: r.mu.Lock() *)
DeleteLock(w, id) ==
    /\ cpc[w] = "idle"
    /\ cloc[w].calls < MaxCalls
    /\ mu = 0
    /\ mu' = w
    /\ cpc' = [cpc EXCEPT ![w] = "delete"]
    /\ cloc' = [cloc EXCEPT ![w].id = id, ![w].calls = @ + 1]
    /\ UNCHANGED <<concFrame, tdb, fieldCounts, noisyFields, anchors>>

(* DeleteTC under the lock: Get, delete(r.anchors, index), Delete, and the  *)
(* deferred Unlock                                                          *)
DeleteBody(w) ==
    /\ cpc[w] = "delete"
    /\ mu = w
    /\ IF cloc[w].id \in DOMAIN tdb
       THEN /\ anchors' = [i \in DOMAIN anchors \ {IndexOf(tdb[cloc[w].id])} |-> anchors[i]]
            /\ tdb' = [i \in DOMAIN tdb \ {cloc[w].id} |-> tdb[i]]
            /\ cloc' = [cloc EXCEPT ![w].deleted = @ + 1]
       ELSE UNCHANGED <<anchors, tdb, cloc>>
    /\ mu' = 0
    /\ cpc' = [cpc EXCEPT ![w] = "idle"]
    /\ UNCHANGED <<concFrame, fieldCounts, noisyFields>>

(* Two writers inside the same unguarded map at once: the run time may end  *)
(* the process (fatal error: concurrent map writes)                         *)
MapWriters == {w \in Workers : cpc[w] \in {"cwrite", "append"}}

Fatal ==
    /\ \E p, q \in Workers : p # q /\ cpc[p] = cpc[q] /\ p \in MapWriters
    /\ cpc' = [w \in Workers |-> "fatal"]
    /\ UNCHANGED <<concFrame, tdb, fieldCounts, noisyFields, anchors, mu, cloc>>

InitConc == InitRun /\ InitCapIdle /\ hdr = NoHdr /\ enableDeDup = TRUE /\ tdb = EmptyMap

NextConc ==
    \/ \E w \in Workers, t \in ConcCases : PutStart(w, t)
    \/ \E w \in Workers : FillCheck(w)
    \/ \E w \in Workers : FillLock(w)
    \/ \E w \in Workers : FillBody(w)
    \/ \E w \in Workers : CountRead(w)
    \/ \E w \in Workers : CountWrite(w)
    \/ \E w \in Workers : ExistsRead(w)
    \/ \E w \in Workers : AppendWrite(w)
    \/ \E w \in Workers, id \in {"c1", "c2"} : DeleteLock(w, id)
    \/ \E w \in Workers : DeleteBody(w)
    \/ Fatal

SpecConc == InitConc /\ [][NextConc]_vars

----------------------------------------------------------------------------
(* isAnchor and flatten called on their own.  opRet holds the arguments of  *)
(* the call and, once done, what it returned.                               *)

(* Histograms: u values, the first counted c times and the others once *)
MaxUnique == 10
MaxCount == 30
Hist(u, c) == [v \in 1..u |-> IF v = 1 THEN c ELSE 1]
Histograms == {EmptyMap} \cup {Hist(u, c) : u \in 1..MaxUnique, c \in 1..MaxCount}

(* Arrays of three elements drawn from scalars, objects and arrays that     *)
(* share leaf paths, and the orders of three elements                       *)
FlatElems ==
    {JStr("a"), JStr("b"), JNum(1),
     JObj("k" :> JStr("a")), JObj("k" :> JStr("b")),
     JArr(<<JStr("b"), JObj("k" :> JNum(2))>>)}
FlatArrays == {<<x, y, z>> : x \in FlatElems, y \in FlatElems, z \in FlatElems}
Orders == {<<1, 2, 3>>, <<1, 3, 2>>, <<2, 1, 3>>, <<2, 3, 1>>, <<3, 1, 2>>, <<3, 2, 1>>}
Permuted(arr, o) == [i \in DOMAIN arr |-> arr[o[i]]]

PureCall(op, m, arr, o) ==
    [op |-> op, m |-> m, arr |-> arr, order |-> o, done |-> FALSE, ret |-> FALSE,
     out |-> EmptyMap, outPerm |-> EmptyMap]

PureInputs ==
    {PureCall("isAnchor", m, <<>>, <<>>) : m \in Histograms}
    \cup {PureCall("flatten", EmptyMap, arr, o) : arr \in FlatArrays, o \in Orders}

pureFrame == <<runVars, tdb, fieldCounts, noisyFields, anchors, enableDeDup, putPc,
               putCid, putBatch, putIds, putRet, history, hdr, mu, cpc, cloc>>

IsAnchorCall ==
    /\ opRet.op = "isAnchor" /\ ~opRet.done
    /\ opRet' = [opRet EXCEPT !.done = TRUE, !.ret = isAnchor(opRet.m)]
    /\ UNCHANGED pureFrame

FlattenCall ==
    /\ opRet.op = "flatten" /\ ~opRet.done
    /\ opRet' = [opRet EXCEPT !.done = TRUE,
                              !.out = flatten(JArr(opRet.arr)),
                              !.outPerm = flatten(JArr(Permuted(opRet.arr, opRet.order)))]
    /\ UNCHANGED pureFrame

InitPure ==
    /\ InitRun /\ enableDeDup = TRUE /\ tdb = EmptyMap /\ hdr = NoHdr
    /\ fieldCounts = EmptyMap /\ noisyFields = EmptyMap /\ anchors = EmptyMap
    /\ putPc = "idle" /\ putCid = "" /\ putBatch = <<>> /\ putIds = <<>>
    /\ putRet = NoPutRet /\ history = <<>> /\ mu = 0
    /\ cpc = [w \in Workers |-> "idle"] /\ cloc = [w \in Workers |-> NoLocals]
    /\ opRet \in PureInputs

NextPure == IsAnchorCall \/ FlattenCall

SpecPure == InitPure /\ [][NextPure]_vars

----------------------------------------------------------------------------
(* One Regression instance over its life: Put of one case, DeleteTC, and a  *)
(* new instance over the same store (regression.New starts with empty       *)
(* maps).  The store calls of Put succeed here.  opRet records the last     *)
(* operation: the case put, what putTC returned, the store calls made, the  *)
(* number of operations so far and the requests this instance has seen.     *)

MaxOps == 4

Stamp(ts) == "timestamp" :> <<ts>>
Accept == "accept" :> <<"json">>

CacheCases ==
    {Case("p1", "app", "/b10aliens", Req(Accept, EmptyMap, BodyPlain), Resp(200, EmptyMap, ""), {}),
     Case("p2", "app", "/b10aliens", Req(Accept, EmptyMap, BodyOther), Resp(200, EmptyMap, ""), {}),
     Case("x", "app", "/b10aliens", Req(Stamp("t1"), EmptyMap, BodyMany), Resp(200, EmptyMap, ""), {}),
     Case("y", "app", "/b10aliens", Req(Stamp("t2"), EmptyMap, BodyMany), Resp(200, EmptyMap, ""), {}),
     Case("n", "app", "/b10aliens", Req(EmptyMap, EmptyMap, BodyMany), Resp(200, EmptyMap, ""), {}),
     Case("e", "app", "/b10aliens", Req(EmptyMap, EmptyMap, BodyPlain), Resp(200, EmptyMap, ""), {})}

CacheIds == {t.id : t \in CacheCases}

NoOp == [op |-> "none", n |-> 0, t |-> EmptyMap, dup |-> FALSE, err |-> FALSE, id |-> "",
         calls |-> 0, seen |-> {}]

cacheFrame == <<runVars, enableDeDup, putPc, putCid, putBatch, putIds, putRet, history,
                hdr, mu, cpc, cloc>>

(* Put(ctx, "co", [t]) *)
CachePut(t) ==
    /\ opRet.n < MaxOps
    /\ \E r \in {putTC("co", t, TRUE, TRUE, TRUE)} :
          /\ fieldCounts' = r.fieldCounts
          /\ noisyFields' = r.noisyFields
          /\ anchors' = r.anchors
          /\ tdb' = r.tdb
          /\ opRet' = [op |-> "put", n |-> opRet.n + 1, t |-> [t EXCEPT !.cid = "co"],
                       dup |-> r.dup, err |-> r.err, id |-> IdOf(r.dup, r.t),
                       calls |-> r.calls, seen |-> opRet.seen \cup {t.req}]
    /\ UNCHANGED cacheFrame

(* DeleteTC(ctx, "co", id), with the lock taken and released inside *)
CacheDeleteTC(id, deleteOk) ==
    /\ opRet.n < MaxOps
    /\ mu = 0
    /\ IF id \notin DOMAIN tdb
       THEN /\ opRet' = [NoOp EXCEPT !.op = "delete", !.n = opRet.n + 1, !.id = id,
                                     !.err = TRUE, !.calls = 1, !.seen = opRet.seen]
            /\ UNCHANGED <<anchors, tdb>>
       ELSE /\ anchors' = [i \in DOMAIN anchors \ {IndexOf(tdb[id])} |-> anchors[i]]
            /\ tdb' = IF deleteOk THEN [i \in DOMAIN tdb \ {id} |-> tdb[i]] ELSE tdb
            /\ opRet' = [NoOp EXCEPT !.op = "delete", !.n = opRet.n + 1, !.id = id,
                                     !.err = ~deleteOk, !.calls = 2, !.seen = opRet.seen]
    /\ UNCHANGED <<fieldCounts, noisyFields, cacheFrame>>

(* regression.New over the same store *)
Restart ==
    /\ opRet.n < MaxOps
    /\ fieldCounts' = EmptyMap
    /\ noisyFields' = EmptyMap
    /\ anchors' = EmptyMap
    /\ opRet' = [NoOp EXCEPT !.op = "new", !.n = opRet.n + 1]
    /\ UNCHANGED <<tdb, cacheFrame>>

InitCache ==
    /\ InitRun /\ enableDeDup = TRUE /\ tdb = EmptyMap /\ hdr = NoHdr
    /\ fieldCounts = EmptyMap /\ noisyFields = EmptyMap /\ anchors = EmptyMap
    /\ putPc = "idle" /\ putCid = "" /\ putBatch = <<>> /\ putIds = <<>>
    /\ putRet = NoPutRet /\ history = <<>> /\ mu = 0
    /\ cpc = [w \in Workers |-> "idle"] /\ cloc = [w \in Workers |-> NoLocals]
    /\ opRet = NoOp

NextCache ==
    \/ \E t \in CacheCases : CachePut(t)
    \/ \E id \in CacheIds, deleteOk \in BOOLEAN : CacheDeleteTC(id, deleteOk)
    \/ Restart

SpecCache == InitCache /\ [][NextCache]_vars

----------------------------------------------------------------------------
(* DeNoise and Normalize as concurrent handlers on the stored cases: worker *)
(* 1 runs DeNoise, worker 2 runs Normalize, and another handler can run     *)
(* between the Get and the Upsert of each.  In cloc, t is the TestCase the  *)
(* handler loaded, c its argument (the observed response, or the Test       *)
(* read), an the field value its Upsert wrote.  The store calls succeed.    *)

raceFrame == <<fieldCounts, noisyFields, anchors, enableDeDup, putPc, putCid, putBatch,
               putIds, putRet, history, opRet, hdr, mu>>

(* DeNoise: tdb.Get *)
DeNoiseGet(id, obs) ==
    /\ cpc[1] = "idle"
    /\ cloc[1].calls < MaxCalls
    /\ id \in DOMAIN tdb
    /\ cloc' = [cloc EXCEPT ![1].t = tdb[id], ![1].id = id, ![1].c = obs,
                            ![1].calls = @ + 1]
    /\ cpc' = [cpc EXCEPT ![1] = "upsert"]
    /\ UNCHANGED <<runVars, raceFrame, tdb>>

(* DeNoise: the diff, tc.Noise = noise, tdb.Upsert *)
DeNoiseUpsert ==
    /\ cpc[1] = "upsert"
    /\ \E tc \in {[cloc[1].t EXCEPT !.noise =
                      StoredNoise(@, NoiseOf(FlatResp(cloc[1].t.resp.header,
                                                      cloc[1].t.resp.body),
                                             FlatResp(cloc[1].c.header, cloc[1].c.body)))]} :
          /\ tdb' = TcUpsert(tdb, tc)
          /\ cloc' = [cloc EXCEPT ![1].an = tc.noise]
    /\ cpc' = [cpc EXCEPT ![1] = "idle"]
    /\ UNCHANGED <<runVars, raceFrame>>

(* Normalize: rdb.ReadTest and tdb.Get *)
NormalizeGet(id) ==
    /\ cpc[2] = "idle"
    /\ cloc[2].calls < MaxCalls
    /\ id \in DOMAIN rdbTests
    /\ ReadTest(rdbTests, id).tc \in DOMAIN tdb
    /\ cloc' = [cloc EXCEPT ![2].t = tdb[ReadTest(rdbTests, id).tc],
                            ![2].id = ReadTest(rdbTests, id).tc,
                            ![2].c = ReadTest(rdbTests, id),
                            ![2].calls = @ + 1]
    /\ cpc' = [cpc EXCEPT ![2] = "upsert"]
    /\ UNCHANGED <<runVars, raceFrame, tdb>>

(* Normalize: tc.HttpResp = t.Resp, tdb.Upsert *)
NormalizeUpsert ==
    /\ cpc[2] = "upsert"
    /\ tdb' = TcUpsert(tdb, Normalized(cloc[2].t, cloc[2].c))
    /\ cloc' = [cloc EXCEPT ![2].an = cloc[2].c.resp]
    /\ cpc' = [cpc EXCEPT ![2] = "idle"]
    /\ UNCHANGED <<runVars, raceFrame>>

NextRace ==
    \/ \E id \in NoiseIds, obs \in NoiseObs : DeNoiseGet(id, obs)
    \/ DeNoiseUpsert
    \/ \E id \in 1..MaxTests : NormalizeGet(id)
    \/ NormalizeUpsert
    \/ \E r \in RunIds, in \in MaintInputs :
          TestCall(r, in[1], in[2], TRUE, TRUE) /\ UNCHANGED <<testRet, testCalls>>
    \/ TestInc(TRUE) /\ UNCHANGED <<testRet, testCalls>>

SpecRace == InitReplay /\ [][NextRace]_vars

----------------------------------------------------------------------------
(* Further claims about stall detection and persisted captures *)

(* C15: whenever failOldTestRuns finds the run stalled, Get does not       *)
(* return an error and the run is stored as Failed, whatever the store      *)
(* calls did.                                                               *)
C15_StallNeverErrs ==
    [][(GetFailStep /\ now - StallBase(getTrs[getI], getTests) >= StallTicks) =>
          getRet' # "err" /\ StoredFailed(rdbRuns', getTrs[getI].id)]_vars

(* C16: every TestCase persisted through Put has anchors within all_keys:  *)
(* each path of anchors is a path of all_keys with the same value list.     *)
C16_AnchorsWithinAllKeys ==
    \A id \in DOMAIN tdb :
        \A p \in DOMAIN tdb[id].anchors :
            p \in DOMAIN tdb[id].allKeys /\ tdb[id].allKeys[p] = tdb[id].anchors[p]

C16_Witness ==
    \E id \in DOMAIN tdb :
        /\ tdb[id].req.body = BodyBA
        /\ tdb[id].anchors = (<<"body">> :> <<"a", "b">>)
        /\ tdb[id].allKeys = tdb[id].anchors

(* C18: the stall transition Get writes for a run leaves the stored        *)
(* success and failure counters as the increments made them, also when      *)
(* Test calls for the run ran between Get's read and its write.  Taken for  *)
(* runs whose counters no Put has written, that Get read with a counter     *)
(* above zero, and whose stored document still has the status Get read and  *)
(* counters no lower than Get read.                                         *)
StallSnapshotGrown ==
    LET tr == getTrs[getI] IN
    /\ tr.id \notin counted
    /\ tr.id \in DOMAIN rdbRuns
    /\ tr.success + tr.failure > 0
    /\ rdbRuns[tr.id].status = tr.status
    /\ rdbRuns[tr.id].success >= tr.success
    /\ rdbRuns[tr.id].failure >= tr.failure

C18_StallKeepsCounters ==
    [][(GetFailStep /\ StallSnapshotGrown) =>
          Counters(rdbRuns', getTrs[getI].id) = Counters(rdbRuns, getTrs[getI].id)]_vars

(* C17: CompareHeaders emits exactly one HeaderResult per key of the union  *)
(* of expected and actual; Normal is true exactly when the key is in both   *)
(* maps with equal lists, or the key is in noise and is in actual only or   *)
(* in both with differing lists; the call returns true iff every entry is   *)
(* Normal.  The results of the rows of TestCompareHeader are the table's.   *)
NormalRule(e, a, n, key) ==
    \/ key \in DOMAIN e /\ key \in DOMAIN a /\ e[key] = a[key]
    \/ key \in n /\ key \in DOMAIN a /\ key \notin DOMAIN e
    \/ key \in n /\ key \in DOMAIN a /\ key \in DOMAIN e /\ e[key] # a[key]

C17_CompareHeaders ==
    hdr.done =>
        /\ Len(hdr.res) = Cardinality(DOMAIN hdr.expected \cup DOMAIN hdr.actual)
        /\ {hdr.res[i].expected.key : i \in DOMAIN hdr.res}
              = DOMAIN hdr.expected \cup DOMAIN hdr.actual
        /\ \A i \in DOMAIN hdr.res :
              /\ hdr.res[i].actual.key = hdr.res[i].expected.key
              /\ hdr.res[i].normal
                    = NormalRule(hdr.expected, hdr.actual, hdr.noise, hdr.res[i].expected.key)
        /\ hdr.ret = (\A i \in DOMAIN hdr.res : hdr.res[i].normal)
        /\ \A r \in DOMAIN HeaderTable :
              (/\ hdr.expected = HeaderTable[r].exp
               /\ hdr.actual = HeaderTable[r].actual
               /\ hdr.noise = HeaderTable[r].noise)
              => /\ hdr.ret = HeaderTable[r].result
                 /\ Range(hdr.res) = HeaderTable[r].hdrResult

C17_Witness ==
    /\ hdr.done
    /\ ~hdr.ret
    /\ \E i, j \in DOMAIN hdr.res :
          /\ hdr.res[i].normal /\ hdr.res[i].expected.nil
          /\ ~hdr.res[j].normal /\ ~hdr.res[j].expected.nil /\ ~hdr.res[j].actual.nil
          /\ hdr.res[j].expected.key \notin hdr.noise

(* C19: no two executions that read or write fieldCounts, noisyFields or   *)
(* anchors overlap: two workers are never both inside isDup's cache section *)
(* or DeleteTC's.                                                           *)
InCacheSection(w) == cpc[w] \in {"fill", "cwrite", "exists", "append", "delete"}

C19_CacheSectionsExclusive ==
    \A p, q \in Workers : p # q => ~(InCacheSection(p) /\ InCacheSection(q))

(* C20: when concurrent isDup calls on one index have all returned (and no *)
(* DeleteTC ran), fieldCounts[index] holds one count per call for every     *)
(* key the calls counted and anchors[index] holds one entry per call that   *)
(* had filterKeys.                                                          *)
C20_NoLostUpdate ==
    (/\ \A w \in Workers : cpc[w] = "idle" /\ cloc[w].deleted = 0
     /\ ConcIndex \in DOMAIN fieldCounts)
    => /\ Len(AnchorsOf(anchors, ConcIndex)) = cloc[1].appended + cloc[2].appended
       /\ \A k \in DOMAIN fieldCounts[ConcIndex] :
             TotalCount(fieldCounts[ConcIndex][k]) = cloc[1].counted + cloc[2].counted

(* C28: isAnchor returns true for every histogram whose total count is     *)
(* below 20; for a total of 20 or more it returns false iff the number of   *)
(* distinct values is at least 0.4 times the total, i.e. true iff           *)
(* 5 * unique < 2 * total.                                                  *)
C28_IsAnchorRule ==
    (opRet.op = "isAnchor" /\ opRet.done) =>
        LET total == TotalCount(opRet.m)
            unique == Cardinality(DOMAIN opRet.m)
        IN opRet.ret = (total < 20 \/ 5 * unique < 2 * total)

C28_Witness ==
    /\ opRet.op = "isAnchor" /\ opRet.done /\ ~opRet.ret
    /\ TotalCount(opRet.m) = 20
    /\ Cardinality(DOMAIN opRet.m) = 8

(* C29: flatten puts no array position in a path: an array and any         *)
(* permutation of it flatten to the same paths with, for each path, the     *)
(* same multiset of values, and the values of the elements that share a     *)
(* path are concatenated in element order.                                  *)
BagOf(v) == [x \in Range(v) |-> Cardinality({i \in DOMAIN v : v[i] = x})]

RECURSIVE InOrder(_, _)
InOrder(arr, p) ==
    IF arr = <<>> THEN <<>>
    ELSE (IF p \in DOMAIN flatten(Head(arr)) THEN flatten(Head(arr))[p] ELSE <<>>)
         \o InOrder(Tail(arr), p)

C29_FlattenArrays ==
    (opRet.op = "flatten" /\ opRet.done) =>
        /\ DOMAIN opRet.out = DOMAIN opRet.outPerm
        /\ DOMAIN opRet.out = UNION {DOMAIN flatten(opRet.arr[i]) : i \in DOMAIN opRet.arr}
        /\ \A p \in DOMAIN opRet.out :
              /\ BagOf(opRet.out[p]) = BagOf(opRet.outPerm[p])
              /\ opRet.out[p] = InOrder(opRet.arr, p)
              /\ \A i \in DOMAIN p : p[i] = "k"

C29_Witness ==
    /\ opRet.op = "flatten" /\ opRet.done
    /\ opRet.order = <<3, 2, 1>>
    /\ opRet.out # opRet.outPerm
    /\ \E p \in DOMAIN opRet.out : Len(opRet.out[p]) = 3 /\ p = <<"k">>

----------------------------------------------------------------------------
(* Claims about the anchor cache over the life of an instance *)

PutStep == opRet'.op = "put" /\ opRet'.n = opRet.n + 1
Filled(index) == index \in DOMAIN noisyFields /\ index \in DOMAIN fieldCounts

(* C21: for every filled index and every path, the path is in              *)
(* noisyFields[index] iff isAnchor(fieldCounts[index][path]) is false,      *)
(* after a fill from the store as after every isDup call.                   *)
C21_NoisyIffNotAnchor ==
    \A index \in DOMAIN noisyFields \cap DOMAIN fieldCounts :
        \A p \in DOMAIN fieldCounts[index] \cup noisyFields[index] :
            (p \in noisyFields[index]) = ~isAnchor(CountsOf(fieldCounts[index], p))

(* C22: on one instance a path that is in noisyFields[index] stays there   *)
(* after every later Put and DeleteTC, its histogram is no longer updated   *)
(* and the filterKeys of a later isDup do not hold it.                      *)
Appended ==
    IF Len(AnchorsOf(anchors', ConcIndex)) > Len(AnchorsOf(anchors, ConcIndex))
    THEN anchors'[ConcIndex][Len(anchors'[ConcIndex])] ELSE EmptyMap

C22_NoisyStays ==
    [][opRet'.op # "new" =>
          \A index \in DOMAIN noisyFields :
              /\ index \in DOMAIN noisyFields'
              /\ \A p \in noisyFields[index] :
                    /\ p \in noisyFields'[index]
                    /\ CountsOf(fieldCounts'[index], p) = CountsOf(fieldCounts[index], p)
                    /\ p \notin DOMAIN Appended
                    /\ \A id \in DOMAIN tdb' \ DOMAIN tdb : p \notin DOMAIN tdb'[id].anchors]_vars

C22_Witness ==
    /\ opRet.op = "put" /\ opRet.t.id = "y" /\ ~opRet.dup
    /\ "x" \in DOMAIN tdb
    /\ <<"body">> \in noisyFields[ConcIndex]
    /\ TotalCount(fieldCounts[ConcIndex][<<"body">>]) = 20
    /\ DOMAIN tdb["y"].anchors = {<<"header", "timestamp">>}

(* C23: after any sequence of Put and DeleteTC, every combination in       *)
(* anchors[index] is the anchors of a TestCase present in the store for     *)
(* that index.                                                              *)
C23_AnchorsBacked ==
    \A index \in DOMAIN anchors :
        \A i \in DOMAIN anchors[index] :
            \E id \in DOMAIN tdb :
                IndexOf(tdb[id]) = index /\ tdb[id].anchors = anchors[index][i]

(* C24: after DeleteTC has evicted anchors[index], the next isDup on the   *)
(* index reloads the combinations of the remaining cases from the store:    *)
(* after that Put every case that was in the store is in anchors[index].    *)
C24_DeleteForcesRefill ==
    [][(/\ PutStep
        /\ opRet.op = "delete" /\ ~opRet.err
        /\ Filled(ConcIndex) /\ ConcIndex \notin DOMAIN anchors) =>
          \A id \in DOMAIN tdb :
              IndexOf(tdb[id]) = ConcIndex =>
                  \E i \in DOMAIN AnchorsOf(anchors', ConcIndex) :
                      anchors'[ConcIndex][i] = tdb[id].anchors]_vars

(* C26: when every path of the captured request is noisy or the request    *)
(* has no paths, isDup reports a duplicate: Put returns an empty id, no     *)
(* DeleteByAnchor and no Upsert is issued, and anchors[index] is unchanged. *)
AllNoisyPut ==
    /\ PutStep
    /\ \A p \in DOMAIN ReqKeys(opRet'.t) : p \in noisyFields'[ConcIndex]

NoStoreWrite ==
    /\ opRet'.dup /\ ~opRet'.err /\ opRet'.id = ""
    /\ tdb' = tdb
    /\ opRet'.calls = (IF Filled(ConcIndex) THEN 0 ELSE 1)

C26_EmptyFilterKeepsAnchors ==
    [][AllNoisyPut =>
          NoStoreWrite /\ AnchorsOf(anchors', ConcIndex) = AnchorsOf(anchors, ConcIndex)]_vars

(* C26, amended: as above, but anchors[index] gains no entry from the call: *)
(* it is unchanged on a filled index, and on the first call of an instance  *)
(* it is the list fillCache loaded from the store.                          *)
LoadedAnchors ==
    LET tcs == GetKeys(tdb, "co", "app", "/b10aliens")
    IN [i \in DOMAIN tcs |-> tcs[i].anchors]

C26_EmptyFilterAppendsNothing ==
    [][AllNoisyPut =>
          /\ NoStoreWrite
          /\ AnchorsOf(anchors', ConcIndex)
                = (IF Filled(ConcIndex) THEN AnchorsOf(anchors, ConcIndex)
                   ELSE LoadedAnchors)]_vars

C26_Witness ==
    /\ opRet.op = "put" /\ opRet.dup /\ opRet.t.id = "n"
    /\ opRet.seen = {opRet.t.req}
    /\ <<"body">> \in noisyFields[ConcIndex]
    /\ Len(anchors[ConcIndex]) = 1
    /\ DOMAIN tdb = {"x"}

(* C27: reqKeys holds the body also when it is not JSON, as raw text under *)
(* the key body: a capture with a non-JSON body that differs from every     *)
(* earlier and every stored capture is not reported as a duplicate and is   *)
(* stored with all_keys[body] = the raw text.                               *)
C27_RawBodyInReqKeys ==
    [][(/\ PutStep
        /\ ~JsonValid(opRet'.t.req.body)
        /\ opRet'.t.req \notin opRet.seen
        /\ \A id \in DOMAIN tdb : tdb[id].req # opRet'.t.req) =>
          /\ ~opRet'.dup
          /\ opRet'.t.id \in DOMAIN tdb'
          /\ <<"body">> \in DOMAIN tdb'[opRet'.t.id].allKeys
          /\ tdb'[opRet'.t.id].allKeys[<<"body">>] = <<opRet'.t.req.body>>]_vars

----------------------------------------------------------------------------
(* Claims about concurrent first access and concurrent maintenance *)

(* C25: when concurrent isDup calls touch an unfilled index, the cache of  *)
(* the index is loaded and installed at most once: a caller that took the   *)
(* mutex after the install finds the index filled and leaves fieldCounts,   *)
(* noisyFields and anchors as the earlier callers installed and updated     *)
(* them.                                                                    *)
C25_FillAtMostOnce ==
    [][/\ cloc'[1].installed + cloc'[2].installed <= 1
       /\ \A w \in Workers :
             (cpc[w] = "fill" /\ cpc'[w] = "count" /\ Filled(ConcIndex)) =>
                 /\ fieldCounts' = fieldCounts
                 /\ noisyFields' = noisyFields
                 /\ anchors' = anchors]_vars

C25_Witness ==
    \E w, v \in Workers :
        /\ w # v
        /\ cpc[w] = "count" /\ cloc[w].calls = 1
        /\ cloc[w].locked = 1 /\ cloc[w].installed = 0
        /\ cloc[v].installed = 1 /\ cloc[v].appended = 1
        /\ Len(anchors[ConcIndex]) = 1
        /\ \E k \in DOMAIN fieldCounts[ConcIndex] : TotalCount(fieldCounts[ConcIndex][k]) = 1

(* C30: a DeNoise and a Normalize that ran concurrently on one test case   *)
(* have both taken effect once both returned: the stored TestCase carries   *)
(* the response written by Normalize and the noise written by DeNoise.      *)
C30_BothTakeEffect ==
    (/\ \A w \in Workers : cpc[w] = "idle" /\ cloc[w].calls = 1
     /\ cloc[1].id = cloc[2].id)
    => /\ tdb[cloc[1].id].noise = cloc[1].an
       /\ tdb[cloc[2].id].resp = cloc[2].an

====
